---------------------------- MODULE Spec2Model ----------------------------
(***************************************************************************)
(* nginx-log-exporter: the file Tailer (internal/file) and the Consumer's  *)
(* consume / aggregate / flush pipeline (internal/consumer).               *)
(*                                                                         *)
(* Two specifications share this module:                                   *)
(*   SpecTailer  the Tailer against a file system in which a writer        *)
(*               appends to the log and a rotation renames and recreates   *)
(*               it;                                                       *)
(*   Spec        the Consumer driving a TailerT and the four metric        *)
(*               handles of a ManagerT (both are interfaces in the code).  *)
(***************************************************************************)
EXTENDS Integers, Sequences, FiniteSets, Bags, TLC

\* ------------------------------------------------------------------------
\* Bounds of the model
\* ------------------------------------------------------------------------

\* bytes the writer appends in one behaviour (byte k is the k-th one written)
MaxWrites == 3
\* files that replace the log file in one behaviour
MaxRotations == 3
\* ticks of the tailer's clock
MaxTime == 3
\* I/O faults (a failing read or stat) injected in one behaviour
MaxFaults == 1

VARIABLES
    \* --- the file system and its writer
    fsPath,       \* inode the path resolves to, NoFile between rename and create
    files,        \* files[i]: the content of inode i, a sequence of bytes
    writer,       \* inode the log writer holds open
    tnow,         \* the clock read by time.Now() in Tailer.Next
    faults,       \* I/O faults injected so far
    \* --- file.Tailer
    tpc,          \* "new", "ready", "openfailed" (NewTailer failed), "readfailed"
    tfile,        \* t.file: [ino, off], the open handle and its read cursor
    tinfo,        \* t.fileInfo: identity of the file behind t.file
    lastContent,  \* t.lastContent
    idleDuration, \* t.idleDuration
    handles,      \* handles the tailer has opened and not closed
    tres,         \* bytes returned by the latest Next()
    lastCheck,    \* what the latest Next() did about rotation
    \* --- history of the tailer's run, read by the properties only
    appended,     \* bytes appended to the held file since the latest Next() / open
    atOpen,       \* content found in the file at open and not yet returned
    returned,     \* all the bytes Next() has returned so far, in order
    first         \* inode of the file NewTailer opened

tvars == <<fsPath, files, writer, tnow, faults, tpc, tfile, tinfo, lastContent,
           idleDuration, handles, tres, lastCheck, appended, atOpen,
           returned, first>>

\* the state of the Consumer
VARIABLES
    cpc,          \* where the Consumer is: "new" before NewConsumer,
                  \* "noconsumer" after NewConsumer failed, "created", then
                  \* in Run "idle" (at the select), "next" (about to call
                  \* tailer.Next), "flush" (in the flush loops of
                  \* consumeBytes), and "stopped" / "failed" once Run returned
    given,        \* the format NewConsumer was called with
    parse,        \* c.parse, as the name of the format
    paths,        \* c.paths
    initFinshed,  \* c.initFinshed
    stop,         \* c.stop: the number of values in the channel's buffer
    senders,      \* the Stop calls blocked on the full channel
    stops,        \* the Stop calls made
    stopAt,       \* where Run was when the first Stop call was made:
                  \* "idle" (at the select) or "busy"
    clock,          \* the clock
    created,      \* the calls NewConsumer made on the manager, in order
    polls,        \* the tailer.Next calls made
    block,        \* b in Run: the bytes of the current cycle, as lines
    stats,        \* stats in consumeBytes
    calls,        \* the Add and Observe calls of the current cycle, as a bag
    runErr        \* what Run returned: "nil", "next" or "flush"

cvars == <<cpc, given, parse, paths, initFinshed, stop, senders, stops, stopAt, clock,
           created, polls, block, stats, calls, runErr>>

VARIABLES
    mpc,          \* where the metrics.Manager is: "new" before NewManager,
                  \* "ready", "panicked" once a call panicked
    commonLabels, \* m.commonLabels
    counters,     \* m.counters: name -> the curried CounterVec
    histograms,   \* m.histograms: name -> the curried ObserverVec
    registered,   \* the names registered with prometheus
    history       \* the Add and Observe calls made so far, with their outcome

mvars == <<mpc, commonLabels, counters, histograms, registered, history>>

VARIABLES
    \* --- history of the rotations, read by the properties only
    late,         \* a byte was written to a file behind the one the tailer holds
    skipped,      \* the path was replaced again before the tailer had switched
    sinceCheck    \* renames and creations at the path since the latest call
                  \* of openOrRotate; stays at 3 once three have been counted,
                  \* which is when one interval has seen two of a kind

rvars == <<late, skipped, sinceCheck>>

VARIABLES
    \* --- the timer of Run's select, taken as an event of its own
    expired,      \* the timer of the current time.After(c.Period) has fired
    after         \* history: the waits that ended on the timer since the
                  \* first Stop call

svars == <<expired, after>>

VARIABLES
    \* --- a log line that the file held only in part when Next() read it
    cutLine,      \* the line whose first bytes end the latest block, and
                  \* where it is cut; its other bytes are still to be read
    tailOf        \* the line whose last bytes begin the current block

fvars == <<cutLine, tailOf>>

VARIABLES
    \* --- what the Manager's callers got back
    added         \* the AddCounter and AddHistogram calls made, in order,
                  \* each with its name and whether it returned an error

gvars == <<added>>

VARIABLES
    \* --- main: the flag -monitored_paths and what is made of it
    monitoredPaths,  \* *monitoredPaths, a string
    flagsParsed,     \* flag.Parse() has run
    result           \* what parseMonitoredPaths returned, once it has

pvars == <<monitoredPaths, flagsParsed, result>>

vars == <<tvars, cvars, mvars, rvars, svars, fvars, gvars, pvars>>

\* ------------------------------------------------------------------------
\* internal/file: Tailer
\* ------------------------------------------------------------------------

NoFile == 0

\* the idle thresholds NewTailer is called with: none, and one tick
IdleDurations == {0, 1}

\* the zero time.Time a fresh Tailer holds in lastContent
ZeroTime == -1

NoHandle == [ino |-> NoFile, off |-> 0]

\* a Sub that takes the zero time for the instant before the first tick
SubFromStart(now, last) == now - last

\* now.Sub(t.lastContent): time.Time.Sub saturates, so the distance to the
\* zero time is larger than any threshold the model uses
Sub(now, last) == IF last = ZeroTime THEN MaxTime + 2 ELSE now - last

\* a read that ignores the cursor and returns the whole file
ReadAllFrom0(h) == files[h.ino]

\* ioutil.ReadAll(t.file): everything from the handle's cursor to end of file
ReadAll(h) == SubSeq(files[h.ino], h.off + 1, Len(files[h.ino]))

\* a comparison that takes every two files for the same
SameFileAlways(a, b) == TRUE

\* os.SameFile(info, t.fileInfo)
SameFile(a, b) == a = b

\* a Next() that runs the rotation check at every empty read
IdleExceededAlways(now, last, idle) == TRUE

\* the condition of Next() under which the rotation check runs
IdleExceeded(now, last, idle) == Sub(now, last) > idle

TailerInit ==
    /\ fsPath = 1
    /\ files = << <<>> >>
    /\ writer = 1
    /\ tnow = 0
    /\ faults = 0
    /\ tpc = "new"
    /\ tfile = NoHandle
    /\ tinfo = NoFile
    /\ lastContent = ZeroTime
    /\ idleDuration = 0
    /\ handles = 0
    /\ tres = <<>>
    /\ lastCheck = "none"
    /\ appended = <<>>
    /\ atOpen = <<>>
    /\ returned = <<>>
    /\ first = NoFile

\* renames of the path so far
renames == Len(files) - 1 + (IF fsPath = NoFile THEN 1 ELSE 0)

\* bytes written so far, over all files
RECURSIVE TotalLen(_)
TotalLen(fs) == IF fs = <<>> THEN 0 ELSE Len(Head(fs)) + TotalLen(Tail(fs))

\* f.Write(content): one byte is appended to the file the writer holds open
WriterWrites ==
    /\ TotalLen(files) < MaxWrites
    /\ files' = [files EXCEPT ![writer] = Append(@, TotalLen(files) + 1)]
    /\ appended' = IF tpc = "ready" /\ tfile.ino = writer
                   THEN Append(appended, TotalLen(files) + 1)
                   ELSE appended
    /\ UNCHANGED <<fsPath, writer, tnow, faults, tpc, tfile, tinfo, lastContent,
                   idleDuration, handles, tres, lastCheck, atOpen,
                   returned, first>>
    /\ UNCHANGED <<cvars, mvars>>

\* the log writer appends one byte to the file it holds open
WriterAppend == WriterWrites /\ UNCHANGED <<rvars, svars, fvars, gvars, pvars>>

\* rotation, first half: the file is renamed away; the writer keeps its handle
Rename ==
    /\ fsPath # NoFile
    /\ Len(files) <= MaxRotations
    /\ fsPath' = NoFile
    /\ UNCHANGED <<files, writer, tnow, faults, tpc, tfile, tinfo, lastContent,
                   idleDuration, handles, tres, lastCheck, appended, atOpen,
                   returned, first>>
    /\ UNCHANGED <<cvars, mvars, rvars, svars, fvars, gvars, pvars>>

\* os.Create(s.Name): a new empty file is created at the path; the writer
\* then holds file w
CreateAs(w) ==
    /\ fsPath = NoFile
    /\ files' = Append(files, <<>>)
    /\ fsPath' = Len(files) + 1
    /\ writer' = w
    /\ UNCHANGED <<tnow, faults, tpc, tfile, tinfo, lastContent, idleDuration,
                   handles, tres, lastCheck, appended, atOpen, returned, first>>
    /\ UNCHANGED <<cvars, mvars>>

\* rotation, second half: a new empty file is created at the path and the
\* writer reopens it
Create == CreateAs(Len(files) + 1) /\ UNCHANGED <<rvars, svars, fvars, gvars, pvars>>

Tick ==
    /\ tnow < MaxTime
    /\ tnow' = tnow + 1
    /\ UNCHANGED <<fsPath, files, writer, faults, tpc, tfile, tinfo, lastContent,
                   idleDuration, handles, tres, lastCheck, appended, atOpen,
                   returned, first>>
    /\ UNCHANGED <<cvars, mvars, rvars, svars, fvars, gvars, pvars>>

\* a handle opened with its cursor at the end of the file
OpenedAtEnd(ino) == [ino |-> ino, off |-> Len(files[ino])]

\* os.Open: a new handle on the file, its cursor at byte 0
Opened(ino) == [ino |-> ino, off |-> 0]

\* a NewTailer that returns its Tailer whatever openOrRotate returned
AfterOpenErrorIgnored == "ready"

\* if err := t.openOrRotate(); err != nil { return nil, err }
AfterOpenError == "openfailed"

\* NewTailer(path, idleDuration): openOrRotate with t.file == nil
NewTailer ==
    /\ tpc = "new"
    /\ \E idle \in IdleDurations, statOK \in BOOLEAN :
         /\ statOK \/ (fsPath # NoFile /\ faults < MaxFaults)
         /\ IF fsPath = NoFile
            THEN \* os.Open fails
                 /\ tpc' = AfterOpenError
                 /\ UNCHANGED <<tfile, tinfo, idleDuration, handles, atOpen, faults,
                                first>>
            ELSE IF ~statOK
            THEN \* file.Stat fails: the error is returned, the handle stays open
                 /\ tpc' = "openfailed"
                 /\ handles' = handles + 1
                 /\ faults' = faults + 1
                 /\ UNCHANGED <<tfile, tinfo, idleDuration, atOpen, first>>
            ELSE /\ tpc' = "ready"
                 /\ tfile' = Opened(fsPath)
                 /\ tinfo' = fsPath
                 /\ idleDuration' = idle
                 /\ handles' = handles + 1
                 /\ atOpen' = files[fsPath]
                 /\ first' = fsPath
                 /\ UNCHANGED faults
    /\ UNCHANGED <<fsPath, files, writer, tnow, lastContent, tres, lastCheck,
                   appended, returned>>
    /\ UNCHANGED <<cvars, mvars, rvars, svars, fvars, gvars, pvars>>

\* t.openOrRotate() as Next() calls it, t.file being set: the outcome of the
\* rotation check
RotationCheck(statOK) ==
    IF fsPath = NoFile THEN "openfailed"
    ELSE IF ~statOK THEN "statfailed"
    ELSE IF SameFile(fsPath, tinfo) THEN "same"
    ELSE "switched"

\* an openOrRotate that keeps the handle it opened whenever it could stat it
ReplacesAlsoSame(check) == check \in {"switched", "same"}

\* the branch of openOrRotate that sets t.file and t.fileInfo
Replaces(check) == check = "switched"

\* the body of Tailer.Next()
NextCall ==
    /\ tpc = "ready"
    /\ \E readOK \in BOOLEAN, statOK \in BOOLEAN :
         /\ (readOK /\ statOK) \/ faults < MaxFaults
         /\ ~(~readOK /\ ~statOK)
         /\ IF ~readOK
            THEN \* ReadAll fails: Next returns (nil, err); the caller stops
                 /\ tpc' = "readfailed"
                 /\ tres' = <<>>
                 /\ faults' = faults + 1
                 /\ lastCheck' = "none"
                 /\ UNCHANGED <<tfile, tinfo, lastContent, handles, returned>>
            ELSE LET bytes == ReadAll(tfile)
                     read == [tfile EXCEPT !.off = Len(files[tfile.ino])]
                     check == IF Len(bytes) = 0
                                 /\ IdleExceeded(tnow, lastContent, idleDuration)
                              THEN RotationCheck(statOK) ELSE "none"
                 IN  /\ statOK \/ check = "statfailed"
                     /\ tpc' = tpc
                     /\ tres' = bytes
                     /\ lastContent' = IF Len(bytes) > 0 THEN tnow ELSE lastContent
                     /\ lastCheck' = check
                     /\ tfile' = IF Replaces(check)
                                 THEN Opened(fsPath) ELSE read
                     /\ tinfo' = IF Replaces(check) THEN fsPath ELSE tinfo
                     /\ handles' = IF check = "statfailed" THEN handles + 1 ELSE handles
                     /\ faults' = IF check = "statfailed" THEN faults + 1 ELSE faults
                     /\ returned' = returned \o bytes
         /\ appended' = <<>>
         /\ atOpen' = IF lastCheck' = "switched" THEN files[fsPath] ELSE <<>>
    /\ UNCHANGED <<fsPath, files, writer, tnow, idleDuration, first>>
    /\ UNCHANGED <<cvars, mvars>>

\* Tailer.Next()
TailerNext == NextCall /\ UNCHANGED <<rvars, svars, fvars, gvars, pvars>>

\* bounds of the runs in which the rotations are counted
MaxCountedWrites == 2
MaxCountedRotations == 2
MaxCountedTime == 2

\* one more rename or creation at the path since the latest openOrRotate
Counted == IF tinfo = NoFile \/ sinceCheck = 3 THEN sinceCheck ELSE sinceCheck + 1

\* the log writer appends one byte; the byte is late when the tailer has
\* already switched to a later file
WriterAppendLate ==
    /\ TotalLen(files) < MaxCountedWrites
    /\ WriterWrites
    /\ late' = (late \/ writer < tinfo)
    /\ UNCHANGED <<skipped, sinceCheck, svars, fvars, gvars, pvars>>

\* rotation, first half, counted
RenameCounted ==
    /\ Len(files) <= MaxCountedRotations
    /\ fsPath # NoFile
    /\ fsPath' = NoFile
    /\ sinceCheck' = Counted
    /\ UNCHANGED <<files, writer, tnow, faults, tpc, tfile, tinfo, lastContent,
                   idleDuration, handles, tres, lastCheck, appended, atOpen,
                   returned, first>>
    /\ UNCHANGED <<cvars, mvars, late, skipped, svars, fvars, gvars, pvars>>

\* a new empty file is created at the path by whoever rotates the log; the
\* writer reopens the path at once or goes on writing to the file it holds
CreateLagging ==
    /\ \E w \in {writer, Len(files) + 1} : CreateAs(w)
    /\ skipped' = (skipped \/ (tinfo # NoFile /\ Len(files) > tinfo))
    /\ sinceCheck' = Counted
    /\ UNCHANGED <<late, svars, fvars, gvars, pvars>>

\* the writer reopens the path
Reopen ==
    /\ fsPath # NoFile
    /\ writer # fsPath
    /\ writer' = fsPath
    /\ UNCHANGED <<fsPath, files, tnow, faults, tpc, tfile, tinfo, lastContent,
                   idleDuration, handles, tres, lastCheck, appended, atOpen,
                   returned, first>>
    /\ UNCHANGED <<cvars, mvars, rvars, svars, fvars, gvars, pvars>>

TickCounted ==
    /\ tnow < MaxCountedTime
    /\ Tick

\* Tailer.Next(); a call that runs the rotation check starts a new count
TailerNextChecking ==
    /\ NextCall
    /\ sinceCheck' = IF sinceCheck < 3 /\ lastCheck' # "none" THEN 0
                     ELSE sinceCheck
    /\ UNCHANGED <<late, skipped, svars, fvars, gvars, pvars>>

NextRotate ==
    WriterAppendLate \/ RenameCounted \/ CreateLagging \/ Reopen \/ TickCounted
        \/ NewTailer \/ TailerNextChecking

TailerNextStep == WriterAppend \/ Rename \/ Create \/ Tick \/ NewTailer \/ TailerNext


\* ------------------------------------------------------------------------
\* Properties of the Tailer (checked under SpecTailer)
\* ------------------------------------------------------------------------

\* a step that is one call of Next() in which no I/O fault is injected: every
\* other action changes the files, the path, the clock or the tailer's status
IsNextStep ==
    /\ tpc = "ready"
    /\ UNCHANGED <<files, fsPath, tnow, faults>>
    /\ tvars' # tvars

\* C1, as stated: without rotation every Next() returns exactly the bytes
\* appended since the previous Next(), or since open for the first one.
C1_NextReturnsAppendedSinceOpen ==
    [][(IsNextStep /\ renames = 0) => (tpc' = "ready" /\ tres' = appended)]_tvars

\* C1, amended: without rotation and without a failing read, every Next()
\* returns exactly the bytes appended since the previous Next(), in file
\* order, and the first Next() returns in front of them the content the file
\* already held when the tailer opened it; a Next() with no new bytes returns
\* the empty result and no error.
C1_NextReturnsNewBytes ==
    [][(IsNextStep /\ renames = 0)
         => /\ tpc' = "ready"
            /\ tres' = atOpen \o appended
            /\ tfile'.ino = tfile.ino]_tvars

\* C1's case: a second Next() in a row that returned bytes, with no rotation
C1_Witness ==
    /\ tpc = "ready"
    /\ renames = 0
    /\ tres # <<>>
    /\ tfile.off > Len(tres)
    /\ atOpen = <<>>

\* the path has been replaced by a new file and more than the idle threshold
\* has passed since the last Next() that returned bytes
ReplacedAndIdle ==
    /\ fsPath # NoFile
    /\ fsPath # tinfo
    /\ lastContent # ZeroTime
    /\ tnow - lastContent > idleDuration

\* the Next() after a Next() that switched returns the new file's content
C2_After ==
    (IsNextStep /\ lastCheck = "switched") => tres' = files[tfile.ino]

\* C2, as stated: once the path is replaced and the idle threshold exceeded,
\* the first following Next() returns empty and switches to the new file, and
\* the Next() after it returns the new file's content.
C2_RotationAsStated ==
    [][/\ (IsNextStep /\ ReplacedAndIdle)
            => (tres' = <<>> /\ tfile' = [ino |-> fsPath, off |-> 0])
       /\ C2_After]_tvars

\* C2, amended: once the path is replaced, the idle threshold exceeded and
\* every byte of the old file already returned, the first following Next()
\* returns empty and switches to the new file (cursor at byte 0), and the
\* Next() after it returns the content written to the new file.
C2_Rotation ==
    [][/\ (IsNextStep /\ ReplacedAndIdle /\ tfile.off = Len(files[tfile.ino]))
            => /\ tres' = <<>>
               /\ tfile' = [ino |-> fsPath, off |-> 0]
               /\ tinfo' = fsPath
               /\ lastCheck' = "switched"
       /\ C2_After]_tvars

\* C2's case: three successive rotations, each found by an empty Next() after
\* the previous file's content had been returned, the first two followed by
\* a Next() returning the new file's content: the tailer holds the fourth
\* file and has returned the content of the first three, none of them empty
C2_Witness ==
    /\ tinfo = 4
    /\ lastCheck = "switched"
    /\ files[1] # <<>> /\ files[2] # <<>> /\ files[3] # <<>>
    /\ returned = files[1] \o files[2] \o files[3]

\* ------------------------------------------------------------------------
\* internal/consumer: strings, log lines and the two parsers
\* ------------------------------------------------------------------------

\* A string is a sequence of atoms (pieces of text that the code never looks
\* into); SP is one run of white space.
SP == " "

\* strings.Index(s, a) + 1, or Len(s) + 1 when a does not occur in s
IndexOf(s, a) ==
    CHOOSE i \in 1..(Len(s) + 1) :
        /\ i = Len(s) + 1 \/ s[i] = a
        /\ \A j \in 1..(i - 1) : s[j] # a

\* strings.Fields(s): the maximal pieces of s without white space
RECURSIVE Fields(_)
Fields(s) ==
    IF s = <<>> THEN <<>>
    ELSE IF Head(s) = SP THEN Fields(Tail(s))
    ELSE LET n == IndexOf(s, SP)
         IN  <<SubSeq(s, 1, n - 1)>> \o Fields(SubSeq(s, n, Len(s)))

\* strings.Join([]string{a, b, c}, ":")
Join3(a, b, c) == a \o <<":">> \o b \o <<":">> \o c

\* atoms that begin with "/"
SlashAtoms == {"/", "/foo", "/bar", "/baz"}

\* url.ParseRequestURI(u) and the Path of its result: the URI is cut at its
\* first "?", must then begin with "/", and no "#fragment" is split off
ParseRequestURI(u) ==
    LET rest == SubSeq(u, 1, IndexOf(u, "?") - 1)
    IN  IF u = <<"*">> THEN [ok |-> TRUE, Path |-> u]
        ELSE IF rest = <<>> \/ Head(rest) \notin SlashAtoms
        THEN [ok |-> FALSE, Path |-> <<>>]
        ELSE [ok |-> TRUE, Path |-> rest]

\* One field of a log line: a JSON member (key set) or a CLF token (key "").
\* k is what the text is: "str" a string, "time" a string holding a timestamp
\* with its UTC offset (wall clock n, offset z), "num" a number n, "word" a
\* bare token, "btime" / "bword" a token opened by "[" that is / is not a
\* date, "tz" a 5-character zone closed by "]", "quoted" a quoted string.
Field(key, k, str, n, z) == [key |-> key, k |-> k, s |-> str, n |-> n, z |-> z]

\* A line of the block: fmt is "json" (one JSON object), "clf" (white-space
\* separated tokens) or "junk"; long is set for a line over the Scanner's
\* token limit.
Line(fmt, fields) == [fmt |-> fmt, long |-> FALSE, f |-> fields]

\* parsedLogLine, and the error result of a parser
Parsed(t, request, status, requestTime, bytesSent) ==
    [ok |-> TRUE, Time |-> t, Request |-> request, Status |-> status,
     RequestTime |-> requestTime, BytesSent |-> bytesSent]
ParseError ==
    [ok |-> FALSE, Time |-> 0, Request |-> <<>>, Status |-> <<>>,
     RequestTime |-> 0, BytesSent |-> 0]

\* the value json.Unmarshal leaves in the struct field tagged key: the last
\* member of that name, or the field's initial value
Member(line, key, initial) ==
    LET at == {i \in 1..Len(line.f) : line.f[i].key = key}
    IN  IF at = {} THEN initial
        ELSE line.f[CHOOSE i \in at : \A j \in at : j <= i]

\* json.Unmarshal fails on a member whose JSON type is not the field's
JSONStringKeys == {"time", "request", "status"}
JSONNumberKeys == {"request_time", "bytes_sent"}
UnmarshalOK(line) ==
    /\ line.fmt = "json"
    /\ \A i \in 1..Len(line.f) :
          /\ line.f[i].key \in JSONStringKeys => line.f[i].k \in {"str", "time"}
          /\ line.f[i].key \in JSONNumberKeys => line.f[i].k = "num"

\* the value that means "not present" in RequestTime and BytesSent
Absent == -1

EmptyString(key) == Field(key, "str", <<>>, 0, 0)
AbsentNumber(key) == Field(key, "num", <<>>, Absent, 0)

parseJSON(line) ==
    LET t == Member(line, "time", EmptyString("time"))
    IN  IF ~UnmarshalOK(line) THEN ParseError
        ELSE IF t.k # "time" THEN ParseError
        ELSE Parsed(t.n - t.z,
                    Member(line, "request", EmptyString("request")).s,
                    Member(line, "status", EmptyString("status")).s,
                    Member(line, "request_time", AbsentNumber("request_time")).n,
                    Member(line, "bytes_sent", AbsentNumber("bytes_sent")).n)

\* the verbs of "%s %s %s [%s %5s] %q %s %f" and the tokens each accepts
CLFVerbs ==
    << {"word"}, {"word"}, {"word"}, {"btime", "bword"}, {"tz"}, {"quoted"},
       {"word"}, {"num"} >>

\* the number of items fmt.Sscanf extracts
Sscanf(line) ==
    IF line.fmt # "clf" THEN 0
    ELSE LET bad == {i \in 1..Len(CLFVerbs) :
                        i > Len(line.f) \/ line.f[i].k \notin CLFVerbs[i]}
         IN  IF bad = {} THEN Len(CLFVerbs)
             ELSE (CHOOSE i \in bad : \A j \in bad : i <= j) - 1

\* the position of the token Sscanf stores in UserID
CLFStatusFromUserID == 3

\* the position of the token Sscanf stores in Status
CLFStatus == 7

parseCLF(line) ==
    IF Sscanf(line) < Len(CLFVerbs) THEN ParseError
    ELSE IF line.f[4].k # "btime" THEN ParseError
    ELSE Parsed(line.f[4].n - line.f[5].z, line.f[6].s, line.f[CLFStatus].s,
                Absent, line.f[8].n)

\* c.parse as NewConsumer sets it
Parse(format, line) == IF format = "JSON" THEN parseJSON(line) ELSE parseCLF(line)


\* ------------------------------------------------------------------------
\* internal/consumer: the log lines a block is made of
\* ------------------------------------------------------------------------

\* One logged request: the wall-clock time and UTC offset of its timestamp,
\* the status, the request line, the duration and the size of the response.
Request(wall, zone, status, request, duration, bytes) ==
    [wall |-> wall, zone |-> zone, status |-> status, request |-> request,
     duration |-> duration, bytes |-> bytes]

\* the line the log template of the tests writes for a request
EncodeJSON(r) ==
    Line("json", << Field("time", "time", <<>>, r.wall, r.zone),
                    Field("status", "str", r.status, 0, 0),
                    Field("request_time", "num", <<>>, r.duration, 0),
                    Field("request", "str", r.request, 0, 0),
                    Field("bytes_sent", "num", <<>>, r.bytes, 0) >>)

\* the line  host - - [time zone] "request" status bytes  for a request
EncodeCLF(r) ==
    Line("clf", << Field("", "word", <<"host">>, 0, 0),
                   Field("", "word", <<"-">>, 0, 0),
                   Field("", "word", <<"-">>, 0, 0),
                   Field("", "btime", <<>>, r.wall, 0),
                   Field("", "tz", <<>>, 0, r.zone),
                   Field("", "quoted", r.request, 0, 0),
                   Field("", "word", r.status, 0, 0),
                   Field("", "num", <<>>, r.bytes, 0) >>)

Encode(format, r) == IF format = "JSON" THEN EncodeJSON(r) ELSE EncodeCLF(r)

\* The requests of the model.  The Consumer is constructed at time 1: times
\* 0, 1 and 2 are before, at and after it.  Durations and sizes differ from
\* request to request, so that an observation names its request.
Requests ==
    { Request(2, 0, <<"200">>, <<"GET", SP, "/foo", SP, "HTTP/1.1">>, 2, 20),
      Request(2, 0, <<"200">>,
              <<"GET", SP, "/foo", "?", "baz=1", SP, "HTTP/1.1">>, 3, 30),
      Request(2, 0, <<"500">>, <<"POST", SP, "/baz", SP, "HTTP/1.1">>, 4, 40),
      Request(2, 0, <<"500">>,
              <<"GET", SP, "/foo", "#", "frag", SP, "HTTP/1.1">>, 5, 50),
      Request(3, 2, <<"200">>, <<"GET", SP, "/foo", SP, "HTTP/1.1">>, 6, 60),
      Request(0, 0, <<"500">>, <<"POST", SP, "/baz", SP, "HTTP/1.1">>, 7, 70),
      Request(2, 0, <<"500">>, <<"GET", SP, "/foo">>, 8, 80),
      Request(2, 0, <<"200">>, <<"GET", SP, "foo", SP, "HTTP/1.1">>, 9, 90) }

\* lines that no request encodes: text that is not of the format, an object
\* without request_time and with a negative bytes_sent, and a timestamp that
\* is not a date
IrregularJSON ==
    { Line("junk", <<>>),
      Line("json", << Field("time", "time", <<>>, 2, 0),
                      Field("status", "str", <<"200">>, 0, 0),
                      Field("request", "str",
                            <<"GET", SP, "/foo", SP, "HTTP/1.1">>, 0, 0),
                      Field("bytes_sent", "num", <<>>, -2, 0) >>) }

IrregularCLF ==
    { Line("junk", <<>>),
      [EncodeCLF(CHOOSE r \in Requests : r.duration = 2)
          EXCEPT !.f[4] = Field("", "bword", <<"yesterday">>, 0, 0)] }

\* the lines a block of the given format may hold
Lines(format) ==
    IF format = "JSON" THEN {EncodeJSON(r) : r \in Requests} \cup IrregularJSON
    ELSE {EncodeCLF(r) : r \in Requests} \cup IrregularCLF

\* the largest number of lines in one block
MaxLines == 2

RECURSIVE SeqsUpTo(_, _)
SeqsUpTo(S, n) ==
    IF n = 0 THEN {<<>>}
    ELSE LET shorter == SeqsUpTo(S, n - 1)
         IN  shorter \cup {Append(s, x) : s \in shorter, x \in S}

\* the blocks tailer.Next may return
BlocksJSON == SeqsUpTo(Lines("JSON"), MaxLines)
BlocksCLF == SeqsUpTo(Lines("CLF"), MaxLines)
Blocks(format) == IF format = "JSON" THEN BlocksJSON ELSE BlocksCLF

\* Requests with a ":" in the method or in the path, beside requests without:
\* the request line is the client's, and a monitored path is any text without
\* white space
ColonRequests ==
    { Request(2, 0, <<"200">>, <<"GET", SP, "/bar", SP, "HTTP/1.1">>, 2, 20),
      Request(2, 0, <<"200">>,
              <<"GET", ":", "/baz", SP, "/bar", SP, "HTTP/1.1">>, 3, 30),
      Request(2, 0, <<"200">>,
              <<"GET", SP, "/baz", ":", "/bar", SP, "HTTP/1.1">>, 4, 40),
      Request(2, 0, <<"500">>, <<"GET", SP, "/bar", SP, "HTTP/1.1">>, 5, 50),
      Request(2, 0, <<"200">>, <<"POST", SP, "/bar", SP, "HTTP/1.1">>, 6, 60) }

\* the largest number of lines in a block of such requests, and the blocks
MaxColonLines == 2
ColonJSON == SeqsUpTo({EncodeJSON(r) : r \in ColonRequests}, MaxColonLines)
ColonCLF == SeqsUpTo({EncodeCLF(r) : r \in ColonRequests}, MaxColonLines)
ColonBlocks(format) == IF format = "JSON" THEN ColonJSON ELSE ColonCLF

\* the requests whose lines the model cuts
SplitRequests == {r \in Requests : r.duration \in {2, 4}}

\* no line is cut
NoCut == [line |-> Line("junk", <<>>), at |-> 0]

\* A cut line: the line and the number of fields before the cut.  A cut at
\* the last field is inside it (a JSON object before its closing brace, the
\* CLF size between its two digits); a cut after the last field is in front
\* of the newline.
CutsOf(format) ==
    UNION {{[line |-> Encode(format, r), at |-> i] :
                i \in 1..(Len(Encode(format, r).f) + 1)} : r \in SplitRequests}

\* the bytes in front of the cut, as the Scanner yields them at the end of a
\* block: part of a JSON object is no JSON value, part of a CLF line is its
\* first tokens, the last of them a shorter number for a cut inside the size
HeadOf(c) ==
    LET n == Len(c.line.f)
    IN  IF c.at > n THEN c.line
        ELSE IF c.line.fmt = "json" THEN Line("junk", SubSeq(c.line.f, 1, c.at))
        ELSE IF c.at < n THEN Line("clf", SubSeq(c.line.f, 1, c.at))
        ELSE [c.line EXCEPT !.f[n].n = @ \div 10]

\* the bytes behind the cut, as the Scanner yields them at the beginning of
\* the next block: the other tokens, or the newline alone (an empty line)
TailOf(c) ==
    LET n == Len(c.line.f)
    IN  IF c.at > n THEN Line("junk", <<>>)
        ELSE IF c.line.fmt = "json"
        THEN Line("junk", SubSeq(c.line.f, c.at + 1, n))
        ELSE IF c.at < n THEN Line("clf", SubSeq(c.line.f, c.at + 1, n))
        ELSE Line("clf", <<Field("", "num", <<>>, c.line.f[n].n % 10, 0)>>)

\* the lines that are whole in a block between two cut lines
WholeLines(format) == {Encode(format, r) : r \in SplitRequests}

\* a Scanner that keeps the unfinished line of the previous block and puts
\* it in front of the first line of this one
ScannedAfter(held, b) ==
    IF held = NoCut THEN b ELSE <<held.line>> \o Tail(b)

\* bufio.NewScanner(bytes.NewReader(b)): a new Scanner over b alone
Scanned(held, b) == b

\* A duration or a size as a log line gives it: not at all, or as a number
NotGiven == [has |-> FALSE, n |-> 0]
Given(n) == [has |-> TRUE, n |-> n]
OptionalValues == {NotGiven} \cup {Given(n) : n \in {-2, 0, 3}}

\* the JSON line of a request at time 2 with status 200, with the members
\* request_time and bytes_sent only when they are given
OptionalJSON(duration, bytes) ==
    Line("json",
         << Field("time", "time", <<>>, 2, 0),
            Field("status", "str", <<"200">>, 0, 0) >>
         \o (IF duration.has
             THEN <<Field("request_time", "num", <<>>, duration.n, 0)>>
             ELSE <<>>)
         \o << Field("request", "str", <<"GET", SP, "/foo", SP, "HTTP/1.1">>,
                     0, 0) >>
         \o (IF bytes.has
             THEN <<Field("bytes_sent", "num", <<>>, bytes.n, 0)>>
             ELSE <<>>))

\* the CLF line of the same request: the format has no duration and its
\* last token is the size
OptionalCLF(bytes) ==
    EncodeCLF(Request(2, 0, <<"200">>, <<"GET", SP, "/foo", SP, "HTTP/1.1">>,
                      0, bytes.n))

\* the largest number of such lines in a block, and the blocks
MaxOptionalLines == 2
OptionalBlocksJSON ==
    SeqsUpTo({OptionalJSON(d, b) : d, b \in OptionalValues}, MaxOptionalLines)
OptionalBlocksCLF ==
    SeqsUpTo({OptionalCLF(b) : b \in OptionalValues \ {NotGiven}},
             MaxOptionalLines)
OptionalBlocks(format) ==
    IF format = "JSON" THEN OptionalBlocksJSON ELSE OptionalBlocksCLF

\* the largest number of lines in one block where callers of Stop run beside
\* the Consumer, and the blocks tailer.Next may return there
MaxBriefLines == 1
BriefJSON == SeqsUpTo(Lines("JSON"), MaxBriefLines)
BriefCLF == SeqsUpTo(Lines("CLF"), MaxBriefLines)
BriefBlocks(format) == IF format = "JSON" THEN BriefJSON ELSE BriefCLF


\* ------------------------------------------------------------------------
\* internal/consumer: the aggregation of one block
\* ------------------------------------------------------------------------

\* a Go map: a function on its keys
EmptyMap == [k \in {} |-> 0]
Put(m, k, v) == [x \in DOMAIN m \cup {k} |-> IF x = k THEN v ELSE m[x]]

\* the nil annotations, and the annotations of a detailed count
NoAnnotations ==
    [nil |-> TRUE, status_code |-> <<>>, path |-> <<>>, method |-> <<>>]
Annotations(status, path, method) ==
    [nil |-> FALSE, status_code |-> status, path |-> path, method |-> method]

\* keyedCounter.inc, without the branch that adds to a count already there
incFirstOnly(counts, key, annotations) ==
    IF key \in DOMAIN counts THEN counts
    ELSE Put(counts, key, [total |-> 1, annotations |-> annotations])

\* keyedCounter.inc
inc(counts, key, annotations) ==
    IF key \in DOMAIN counts
    THEN [counts EXCEPT ![key].total = @ + 1]
    ELSE Put(counts, key, [total |-> 1, annotations |-> annotations])

\* keyedAccumulator.record, putting a further value in front
recordFront(observations, key, value) ==
    IF key \in DOMAIN observations
    THEN [observations EXCEPT ![key].seen = <<value>> \o @]
    ELSE Put(observations, key, [seen |-> <<value>>])

\* keyedAccumulator.record
record(observations, key, value) ==
    IF key \in DOMAIN observations
    THEN [observations EXCEPT ![key].seen = Append(@, value)]
    ELSE Put(observations, key, [seen |-> <<value>>])

\* a logStats that still holds a count from an earlier call of consumeBytes
UsedStats ==
    [statusCounts |->
        Put(EmptyMap, <<"200">>, [total |-> 1, annotations |-> NoAnnotations]),
     detailedStatusCounts |-> EmptyMap,
     latencyObservations |-> EmptyMap, bytesSentObservations |-> EmptyMap]

\* logStats as consumeBytes creates it
NewStats ==
    [statusCounts |-> EmptyMap, detailedStatusCounts |-> EmptyMap,
     latencyObservations |-> EmptyMap, bytesSentObservations |-> EmptyMap]

\* a test on RequestTime and BytesSent that takes 0 for not present
PresentIfPositive(value) == value > 0

\* the test on RequestTime and BytesSent in consumeLine
Present(value) == value >= 0

\* the last branch of consumeLine, asking for a method and a path only
consumeRequestOfTwo(line, allowed, counts) ==
    LET requestFields == Fields(line.Request)
        u == ParseRequestURI(requestFields[2])
    IN  IF Len(requestFields) < 2 THEN counts
        ELSE IF ~u.ok THEN counts
        ELSE IF u.Path \in allowed
        THEN inc(counts, Join3(line.Status, requestFields[1], u.Path),
                 Annotations(line.Status, u.Path, requestFields[1]))
        ELSE counts

\* the last branch of consumeLine: the detailed count of an allowed path
consumeRequest(line, allowed, counts) ==
    LET requestFields == Fields(line.Request)
        u == ParseRequestURI(requestFields[2])
    IN  IF Len(requestFields) # 3 THEN counts
        ELSE IF ~u.ok THEN counts
        ELSE IF u.Path \in allowed
        THEN inc(counts, Join3(line.Status, requestFields[1], u.Path),
                 Annotations(line.Status, u.Path, requestFields[1]))
        ELSE counts

\* Consumer.consumeLine
consumeLine(line, allowed, st) ==
    [statusCounts |-> inc(st.statusCounts, line.Status, NoAnnotations),
     latencyObservations |->
        IF Present(line.RequestTime)
        THEN record(st.latencyObservations, line.Status, line.RequestTime)
        ELSE st.latencyObservations,
     bytesSentObservations |->
        IF Present(line.BytesSent)
        THEN record(st.bytesSentObservations, line.Status, line.BytesSent)
        ELSE st.bytesSentObservations,
     detailedStatusCounts |->
        consumeRequest(line, allowed, st.detailedStatusCounts)]

\* a comparison of times that also holds for equal times
NotBefore(t, u) == t >= u

\* time.Time.After
After(t, u) == t > u

\* the lines bufio.Scanner yields: it stops at a line over its token limit
RECURSIVE ScanLines(_)
ScanLines(b) ==
    IF b = <<>> \/ Head(b).long THEN <<>>
    ELSE <<Head(b)>> \o ScanLines(Tail(b))

\* a scanning loop that consumes whatever the parser returns
ConsumesAny(parsed, start) == TRUE

\* a scanning loop that also folds a line the parser returned an error for
ConsumesUnparsed(parsed, start) == parsed.ok => After(parsed.Time, start)

\* the branch of the scanning loop that consumes a line
Consumes(parsed, start) == parsed.ok /\ After(parsed.Time, start)

\* the scanning loop of consumeBytes over the lines left, from st
RECURSIVE ScanLoop(_, _, _, _, _)
ScanLoop(format, start, allowed, lines, st) ==
    IF lines = <<>> THEN st
    ELSE LET nextLine == Parse(format, Head(lines))
         IN  ScanLoop(format, start, allowed, Tail(lines),
                      IF Consumes(nextLine, start)
                      THEN consumeLine(nextLine, allowed, st)
                      ELSE st)

\* the logStats consumeBytes holds when its scanning loop ends
Aggregate(format, start, allowed, b) ==
    ScanLoop(format, start, allowed, ScanLines(b), NewStats)


\* ------------------------------------------------------------------------
\* internal/consumer: Consumer, its Run loop and Stop
\* ------------------------------------------------------------------------

\* the largest clock value, and the largest number of Stop calls
MaxClock == 3
MaxStops == 2


\* the metrics in the order NewConsumer creates them, which is also the
\* order of the flush loops of consumeBytes
Metrics ==
    << "http_response_count", "detailed_http_response_count",
       "http_response_time", "http_response_bytes_sent" >>

Formats == {"JSON", "CLF", "XML"}

\* a format switch whose default case falls through to a parser
SupportedAll == Formats

\* the cases of the format switch of NewConsumer that set c.parse
Supported == {"JSON", "CLF"}
AllowLists == { {}, {<<"/foo">>} }
ColonAllowLists == { {<<"/bar">>}, {<<"/bar">>, <<"/baz", ":", "/bar">>} }

ConsumerInit ==
    /\ cpc = "new"
    /\ given = "none"
    /\ parse = "none"
    /\ paths = {}
    /\ initFinshed = 0
    /\ stop = 0
    /\ senders = 0
    /\ stops = 0
    /\ stopAt = "none"
    /\ clock = 1
    /\ created = <<>>
    /\ polls = 0
    /\ block = <<>>
    /\ stats = NewStats
    /\ calls = EmptyBag
    /\ runErr = "none"

\* ------------------------------------------------------------------------
\* metrics.Manager, Counter and Histogram over the Prometheus vectors
\* ------------------------------------------------------------------------

MaxCalls == 3

CounterName == "foo_counter"
HistogramName == "foo_dist"

\* labelNames as passed to AddCounter and AddHistogram
LabelNames == {"label_one"}

\* the base labels NewManager is called with
CommonChoices == {EmptyMap, [foo |-> "bar"]}

\* the labels callers pass to Add and Observe; the last one names a label the
\* vector does not have
LabelSets ==
    {[label_one |-> "one"], [label_one |-> "three"], [label_two |-> "two"]}

Amounts == {-1, 1, 2}

ValueLists == {<<>>, <<1>>, <<1, 2>>}

MetricsInit ==
    /\ mpc = "new"
    /\ commonLabels = EmptyMap
    /\ counters = EmptyMap
    /\ histograms = EmptyMap
    /\ registered = {}
    /\ history = <<>>

\* allLabels: the common label names and labelNames
AllLabels(common, labelNames) == DOMAIN common \cup labelNames

\* metric.CurryWith(m.commonLabels): the vector with the common labels applied
Curried(common, labelNames) ==
    [names |-> AllLabels(common, labelNames), curried |-> common,
     series |-> EmptyMap]

\* the full label-set of the series a curried vector resolves labels to
WithCurried(vec, given_labels) ==
    [k \in DOMAIN vec.curried \cup DOMAIN given_labels |->
        IF k \in DOMAIN given_labels THEN given_labels[k] ELSE vec.curried[k]]

\* GetMetricWith returns an error unless exactly the labels not yet curried
\* are given
GetMetricWithFails(vec, given_labels) ==
    DOMAIN given_labels # vec.names \ DOMAIN vec.curried

\* GetMetricWith creates the series of the label-set when it does not exist
GetMetricWith(vec, given_labels, zero) ==
    LET key == WithCurried(vec, given_labels)
    IN  IF key \in DOMAIN vec.series THEN vec
        ELSE [vec EXCEPT !.series = Put(vec.series, key, zero)]

\* m.Add(value) keeping only the latest amount
AddedLast(old, value) == value

\* m.Add(value)
Added(old, value) == old + value

\* the loop of Observe stopping after its first value
ObservedFirst(old, values) ==
    IF values = <<>> THEN old ELSE Append(old, values[1])

\* for _, value := range values { m.Observe(value) }
Observed(old, values) == old \o values

NewManager ==
    /\ mpc = "new"
    /\ \E common \in CommonChoices : commonLabels' = common
    /\ mpc' = "ready"
    /\ UNCHANGED <<counters, histograms, registered, history, tvars, cvars,
                   rvars, svars, fvars, gvars, pvars>>

\* a registry that takes a name it already holds
RegisterFailsNever(name) == FALSE

\* prometheus.Register(metric) returns an error: the name is registered
RegisterFails(name) == name \in registered

\* the body of AddCounter
AddsCounter(name) ==
    /\ mpc = "ready"
    /\ IF RegisterFails(name)
       THEN UNCHANGED <<counters, registered>>
       ELSE /\ registered' = registered \cup {name}
            /\ counters' = Put(counters, name, Curried(commonLabels, LabelNames))
    /\ UNCHANGED <<mpc, commonLabels, histograms, history, tvars, cvars,
                   rvars, svars, fvars, pvars>>

\* the body of AddHistogram
AddsHistogram(name) ==
    /\ mpc = "ready"
    /\ IF RegisterFails(name)
       THEN UNCHANGED <<histograms, registered>>
       ELSE /\ registered' = registered \cup {name}
            /\ histograms' = Put(histograms, name, Curried(commonLabels, LabelNames))
    /\ UNCHANGED <<mpc, commonLabels, counters, history, tvars, cvars,
                   rvars, svars, fvars, pvars>>

AddCounter == AddsCounter(CounterName) /\ UNCHANGED <<gvars, pvars>>

AddHistogram == AddsHistogram(HistogramName) /\ UNCHANGED <<gvars, pvars>>

\* the names callers ask the Manager for, and the largest number of
\* AddCounter and AddHistogram calls whose results are kept
Names == {CounterName, HistogramName}
MaxAdds == 3

\* AddCounter and AddHistogram under any of the names, with what they return
AddCounterReturning ==
    /\ Len(added) < MaxAdds
    /\ \E name \in Names :
          /\ AddsCounter(name)
          /\ added' = Append(added, [op |-> "AddCounter", name |-> name,
                                     err |-> RegisterFails(name)])

AddHistogramReturning ==
    /\ Len(added) < MaxAdds
    /\ \E name \in Names :
          /\ AddsHistogram(name)
          /\ added' = Append(added, [op |-> "AddHistogram", name |-> name,
                                     err |-> RegisterFails(name)])

\* GetCounter and GetHistogram: the handle stored under the name, or an error
NilVec == [names |-> {}, curried |-> EmptyMap, series |-> EmptyMap]
Lookup(stored, name) ==
    IF name \in DOMAIN stored THEN [err |-> FALSE, vec |-> stored[name]]
    ELSE [err |-> TRUE, vec |-> NilVec]
GetCounter(name) == Lookup(counters, name)
GetHistogram(name) == Lookup(histograms, name)

\* Counter.Add on the counter GetCounter returns
CounterAdd ==
    /\ mpc = "ready"
    /\ CounterName \in DOMAIN counters
    /\ Len(history) < MaxCalls
    /\ \E given_labels \in LabelSets, value \in Amounts :
          LET vec == counters[CounterName]
              m == GetMetricWith(vec, given_labels, 0)
              key == WithCurried(vec, given_labels)
              call == [op |-> "Add", labels |-> given_labels, values |-> <<value>>, out |-> "nil"]
          IN  IF GetMetricWithFails(vec, given_labels)
              THEN /\ history' = Append(history, [call EXCEPT !.out = "err"])
                   /\ UNCHANGED <<mpc, counters>>
              ELSE IF value < 0
              THEN /\ history' = Append(history, [call EXCEPT !.out = "panic"])
                   /\ counters' = [counters EXCEPT ![CounterName] = m]
                   /\ mpc' = "panicked"
              ELSE /\ history' = Append(history, [call EXCEPT !.out = "nil"])
                   /\ counters' =
                         [counters EXCEPT ![CounterName] =
                             [m EXCEPT !.series[key] = Added(m.series[key], value)]]
                   /\ UNCHANGED mpc
    /\ UNCHANGED <<commonLabels, histograms, registered, tvars, cvars,
                   rvars, svars, fvars, gvars, pvars>>

\* Histogram.Observe on the histogram GetHistogram returns
HistogramObserve ==
    /\ mpc = "ready"
    /\ HistogramName \in DOMAIN histograms
    /\ Len(history) < MaxCalls
    /\ \E given_labels \in LabelSets, values \in ValueLists :
          LET vec == histograms[HistogramName]
              m == GetMetricWith(vec, given_labels, <<>>)
              key == WithCurried(vec, given_labels)
              call == [op |-> "Observe", labels |-> given_labels, values |-> values, out |-> "nil"]
          IN  IF GetMetricWithFails(vec, given_labels)
              THEN /\ history' = Append(history, [call EXCEPT !.out = "err"])
                   /\ UNCHANGED histograms
              ELSE /\ history' = Append(history, [call EXCEPT !.out = "nil"])
                   /\ histograms' =
                         [histograms EXCEPT ![HistogramName] =
                             [m EXCEPT !.series[key] = Observed(m.series[key], values)]]
    /\ UNCHANGED <<mpc, commonLabels, counters, registered, tvars, cvars,
                   rvars, svars, fvars, gvars, pvars>>

NextMetrics ==
    NewManager \/ AddCounter \/ AddHistogram \/ CounterAdd \/ HistogramObserve

\* the largest number of Add and Observe calls made beside the calls that
\* add metrics
MaxUses == 1

CounterAddFew == Len(history) < MaxUses /\ CounterAdd

HistogramObserveFew == Len(history) < MaxUses /\ HistogramObserve

\* a Manager whose callers add metrics under names already taken
NextRegister ==
    NewManager \/ AddCounterReturning \/ AddHistogramReturning
        \/ CounterAddFew \/ HistogramObserveFew

RotateInit ==
    /\ late = FALSE
    /\ skipped = FALSE
    /\ sinceCheck = 0

SelectInit ==
    /\ expired = 0
    /\ after = 0

SplitInit ==
    /\ cutLine = NoCut
    /\ tailOf = NoCut

RegisterInit == added = <<>>

\* ------------------------------------------------------------------------
\* main: parseMonitoredPaths
\* ------------------------------------------------------------------------

\* the atoms of a flag value: a path, white space and the separator
FlagAtoms == {"/foo", SP, ","}

\* the longest flag value, in atoms
MaxFlagLen == 4

FlagValues == SeqsUpTo(FlagAtoms, MaxFlagLen)

\* strings.Split(s, sep) for a string that is not empty
RECURSIVE Split(_, _)
Split(s, sep) ==
    LET i == IndexOf(s, sep)
    IN  IF i > Len(s) THEN <<s>>
        ELSE <<SubSeq(s, 1, i - 1)>> \o Split(SubSeq(s, i + 1, Len(s)), sep)

\* what parseMonitoredPaths returns: paths and err
Returns(pathList, err) == [called |-> TRUE, paths |-> pathList, err |-> err]
NotCalled == [called |-> FALSE, paths |-> <<>>, err |-> FALSE]

\* len(elem) > 0 && len(strings.Fields(elem)) == 1
ElemOK(elem) == Len(elem) > 0 /\ Len(Fields(elem)) = 1

\* the loop over the elements, from the paths appended so far
RECURSIVE RangeOver(_, _)
RangeOver(elems, pathList) ==
    IF elems = <<>> THEN Returns(pathList, FALSE)
    ELSE IF ElemOK(Head(elems))
    THEN RangeOver(Tail(elems), Append(pathList, Head(elems)))
    ELSE Returns(<<>>, TRUE)

parseMonitoredPaths(value) ==
    IF Len(value) > 0 THEN RangeOver(Split(value, ","), <<>>)
    ELSE Returns(<<>>, FALSE)

PathsInit ==
    /\ monitoredPaths = <<>>
    /\ flagsParsed = FALSE
    /\ result = NotCalled

\* flag.Parse(): the flag has the value of the command line, or its default
FlagParse ==
    /\ ~flagsParsed
    /\ flagsParsed' = TRUE
    /\ monitoredPaths' \in FlagValues
    /\ UNCHANGED <<result, tvars, cvars, mvars, rvars, svars, fvars, gvars>>

\* paths, err := parseMonitoredPaths()
ParseMonitoredPathsCall ==
    /\ flagsParsed
    /\ ~result.called
    /\ result' = parseMonitoredPaths(monitoredPaths)
    /\ UNCHANGED <<monitoredPaths, flagsParsed, tvars, cvars, mvars, rvars,
                   svars, fvars, gvars>>

NextPaths == FlagParse \/ ParseMonitoredPathsCall

Init ==
    /\ TailerInit /\ ConsumerInit /\ MetricsInit /\ RotateInit /\ SelectInit
    /\ SplitInit /\ RegisterInit /\ PathsInit

\* the calls NewConsumer makes on the manager when none fails: for each
\* metric AddCounter / AddHistogram, then GetCounter / GetHistogram
ManagerCalls ==
    [i \in 1..(2 * Len(Metrics)) |->
        [op |-> IF i % 2 = 1 THEN "Add" ELSE "Get",
         name |-> Metrics[(i + 1) \div 2],
         ok |-> TRUE]]

\* a NewConsumer that notes an error and goes on with the calls left
ManagerCallsDespite(failAt) ==
    [i \in 1..Len(ManagerCalls) |-> [ManagerCalls[i] EXCEPT !.ok = (i # failAt)]]

\* the calls NewConsumer makes when call failAt returns an error (0: none)
ManagerCallsUntil(failAt) ==
    IF failAt = 0 THEN ManagerCalls
    ELSE [i \in 1..failAt |-> [ManagerCalls[i] EXCEPT !.ok = (i # failAt)]]

\* NewConsumer(period, tailer, manager, paths, format), paths being one of
\* lists; failAt is the call on the manager that returns an error (0: none)
NewConsumerOf(lists) ==
    /\ cpc = "new"
    /\ \E format \in Formats, allowed \in lists,
          failAt \in 0..Len(ManagerCalls) :
          /\ given' = format
          /\ IF format \notin Supported
             THEN /\ cpc' = "noconsumer"
                  /\ UNCHANGED <<parse, paths, initFinshed, created>>
             ELSE IF failAt # 0
             THEN /\ cpc' = "noconsumer"
                  /\ created' = ManagerCallsUntil(failAt)
                  /\ UNCHANGED <<parse, paths, initFinshed>>
             ELSE /\ cpc' = "created"
                  /\ parse' = format
                  /\ paths' = allowed
                  /\ created' = ManagerCallsUntil(failAt)
                  /\ initFinshed' = clock
    /\ UNCHANGED <<stop, senders, stops, stopAt, clock, polls, block, stats,
                   calls, runErr, tvars,
                   mvars, rvars, svars, fvars, gvars, pvars>>

NewConsumer == NewConsumerOf(AllowLists)

\* NewConsumer with a path that has a ":" in it among the monitored paths
NewConsumerColon == NewConsumerOf(ColonAllowLists)

\* Run is called
RunStart ==
    /\ cpc = "created"
    /\ cpc' = "idle"
    /\ UNCHANGED <<given, parse, paths, initFinshed, stop, senders, stops, stopAt,
                   clock, created, polls, block, stats, calls, runErr, tvars,
                   mvars, rvars, svars, fvars, gvars, pvars>>

\* a Run that also looks at the stop channel between flush calls
AtSelectOrFlush == cpc \in {"idle", "flush"}

\* Run is at its select
AtSelect == cpc = "idle"

\* a select in which the timer can win over a stop value
TimerWinsAlways == TRUE

\* the timer of time.After(c.Period) wins the select: it can when no stop
\* value is there to be received
TimerWins == stop = 0

\* case <-time.After(c.Period)
PeriodElapsed ==
    /\ cpc = "idle"
    /\ TimerWins
    /\ clock < MaxClock
    /\ clock' = clock + 1
    /\ cpc' = "next"
    /\ block' = <<>>
    /\ stats' = NewStats
    /\ calls' = EmptyBag
    /\ UNCHANGED <<given, parse, paths, initFinshed, stop, senders, stops, stopAt,
                   created, polls, runErr, tvars,
                   mvars, rvars, svars, fvars, gvars, pvars>>

\* a select without its stop case
StopReadyNever == FALSE

\* a select whose stop case needs no value
StopReadyAlways == TRUE

\* a value is in c.stop for the select to receive
StopReady == stop = 1

\* case <-c.stop: return nil
RunStop ==
    /\ AtSelect
    /\ StopReady
    /\ cpc' = "stopped"
    /\ runErr' = "nil"
    /\ stop' = IF senders > 0 THEN 1 ELSE 0
    /\ senders' = IF senders > 0 THEN senders - 1 ELSE 0
    /\ UNCHANGED <<given, parse, paths, initFinshed, stops, stopAt, clock, created,
                   polls, block, stats, calls, tvars,
                   mvars, rvars, svars, fvars, gvars, pvars>>

\* a channel made without a buffer, on which a send finds no room
HasRoomNever(buffered) == FALSE

\* the send on c.stop, a channel of capacity 1, finds room in the buffer
HasRoom(buffered) == buffered = 0

\* Consumer.Stop: c.stop <- true
Stop ==
    /\ cpc \notin {"new", "noconsumer"}
    /\ stops < MaxStops
    /\ stops' = stops + 1
    /\ stopAt' = IF stopAt # "none" THEN stopAt
                  ELSE IF cpc = "idle" THEN "idle" ELSE "busy"
    /\ IF HasRoom(stop)
       THEN stop' = 1 /\ UNCHANGED senders
       ELSE senders' = senders + 1 /\ UNCHANGED stop
    /\ UNCHANGED <<cpc, given, parse, paths, initFinshed, clock, created, polls, block,
                   stats, calls, runErr, tvars,
                   mvars, rvars, svars, fvars, gvars, pvars>>


\* the map the k-th flush loop of consumeBytes ranges over
FlushMap(s, k) ==
    IF k = 1 THEN s.statusCounts
    ELSE IF k = 2 THEN s.detailedStatusCounts
    ELSE IF k = 3 THEN s.latencyObservations
    ELSE s.bytesSentObservations

\* the labels of a counter call: status_code is the key, and the annotations
\* of the count, when it has some, are copied over them
Labels(code, annotations) ==
    IF annotations.nil THEN [status_code |-> code]
    ELSE [status_code |-> annotations.status_code,
          path |-> annotations.path, method |-> annotations.method]

\* the call the k-th flush loop makes for the key code, and its outcome
Call(s, k, code, ok) ==
    [metric |-> Metrics[k],
     code |-> code,
     labels |-> IF k <= 2 THEN Labels(code, FlushMap(s, k)[code].annotations)
                ELSE [status_code |-> code],
     amount |-> IF k <= 2 THEN FlushMap(s, k)[code].total ELSE 0,
     values |-> IF k <= 2 THEN <<>> ELSE FlushMap(s, k)[code].seen,
     ok |-> ok]

\* the keys the k-th flush loop has not reached yet
Remaining(s, made, k) ==
    DOMAIN FlushMap(s, k)
        \ {c.code : c \in {d \in BagToSet(made) : d.metric = Metrics[k]}}

\* the flush loops that still have a key to reach
Unfinished(s, made) == {k \in 1..Len(Metrics) : Remaining(s, made, k) # {}}

\* a Run that goes back to its select when tailer.Next returns an error
AfterNextErrorGoesOn == "idle"

\* where Run is after tailer.Next returned an error: it has returned
AfterNextError == "failed"

\* a flush that takes every call for a success
FailsNever(ok) == FALSE

\* if err := ...Add(...) / ...Observe(...); err != nil
Fails(ok) == ~ok

\* b, err := c.tailer.Next(), and the scanning loop of consumeBytes
RunNextOf(blocks) ==
    /\ cpc = "next"
    /\ polls' = polls + 1
    /\ \/ /\ cpc' = AfterNextError
          /\ runErr' = "next"
          /\ UNCHANGED <<block, stats>>
       \/ /\ block' \in blocks
          /\ stats' = Aggregate(parse, initFinshed, paths, block')
          /\ cpc' = IF Unfinished(stats', EmptyBag) = {} THEN "idle" ELSE "flush"
          /\ UNCHANGED runErr
    /\ UNCHANGED <<given, parse, paths, initFinshed, stop, senders, stops, stopAt,
                   clock, created, calls, tvars,
                   mvars, rvars, svars, fvars, gvars, pvars>>

\* a polling cycle's tailer.Next and scanning loop, on a block of up to
\* MaxLines lines and on a block of up to MaxBriefLines lines
RunNext == RunNextOf(Blocks(parse))
RunNextBrief == RunNextOf(BriefBlocks(parse))

\* a polling cycle on a block of requests with a ":" in them
RunNextColon == RunNextOf(ColonBlocks(parse))

\* flush loops run from the last to the first
LastLoop(loops) == CHOOSE i \in loops : \A j \in loops : i >= j

\* the flush loops of consumeBytes follow one another in program order: the
\* loop that runs is the first that still has a key to reach
FirstLoop(loops) == CHOOSE i \in loops : \A j \in loops : i <= j

\* one iteration of a flush loop of consumeBytes: the loops run in order, a
\* loop takes the keys of its map in any order, and a call that returns an
\* error ends consumeBytes and Run
FlushCall ==
    /\ cpc = "flush"
    /\ LET loops == Unfinished(stats, calls)
           k == FirstLoop(loops)
           keys == Remaining(stats, calls, k)
       IN  \E code \in keys, ok \in BOOLEAN :
              /\ calls' = calls (+) SetToBag({Call(stats, k, code, ok)})
              /\ IF Fails(ok)
                 THEN cpc' = "failed" /\ runErr' = "flush"
                 ELSE /\ cpc' = IF keys = {code} /\ loops = {k}
                                THEN "idle" ELSE "flush"
                      /\ UNCHANGED runErr
    /\ UNCHANGED <<given, parse, paths, initFinshed, stop, senders, stops, stopAt,
                   clock, created, polls, block, stats, tvars,
                   mvars, rvars, svars, fvars, gvars, pvars>>

Next ==
    \/ NewConsumer
    \/ RunStart
    \/ PeriodElapsed
    \/ RunStop
    \/ RunNext
    \/ FlushCall
    \/ Stop

Spec == Init /\ [][Next]_vars

\* a timer that can be received from as soon as it is made
TimerReadyAtOnce == TRUE

\* the timer of time.After(c.Period) can be received from: it has fired
TimerReady == expired = 1

\* the timer made by time.After(c.Period) fires; Run, which made it before
\* evaluating its select, has not left the select yet
TimerExpires ==
    /\ AtSelect
    /\ expired = 0
    /\ clock < MaxClock
    /\ clock' = clock + 1
    /\ expired' = 1
    /\ UNCHANGED <<cpc, given, parse, paths, initFinshed, stop, senders, stops,
                   stopAt, created, polls, block, stats, calls, runErr, after,
                   tvars, mvars, rvars, fvars, gvars, pvars>>

\* case <-time.After(c.Period), chosen by a select that finds the timer
\* ready, whether or not a stop value is ready as well
TimerCase ==
    /\ AtSelect
    /\ TimerReady
    /\ cpc' = "next"
    /\ expired' = 0
    /\ after' = IF stops >= 1 THEN after + 1 ELSE after
    /\ block' = <<>>
    /\ stats' = NewStats
    /\ calls' = EmptyBag
    /\ UNCHANGED <<given, parse, paths, initFinshed, stop, senders, stops, stopAt,
                   clock, created, polls, runErr, tvars, mvars, rvars, fvars, gvars, pvars>>

\* b, err := c.tailer.Next() on a file that holds a part of its last line,
\* and the scanning loop of consumeBytes: the block begins with the bytes
\* left of the line cut before, and ends where the file ends
RunNextSplit ==
    /\ cpc = "next"
    /\ polls' = polls + 1
    /\ \/ /\ cpc' = AfterNextError
          /\ runErr' = "next"
          /\ UNCHANGED <<block, stats, cutLine, tailOf>>
       \/ \E whole \in SeqsUpTo(WholeLines(parse), 1),
             c \in CutsOf(parse) \cup {NoCut} :
             LET b == (IF cutLine = NoCut THEN <<>> ELSE <<TailOf(cutLine)>>)
                         \o whole
                         \o (IF c = NoCut THEN <<>> ELSE <<HeadOf(c)>>)
             IN  /\ block' = b
                 /\ tailOf' = cutLine
                 /\ cutLine' = c
                 /\ stats' = Aggregate(parse, initFinshed, paths,
                                       Scanned(cutLine, b))
                 /\ cpc' = IF Unfinished(stats', EmptyBag) = {} THEN "idle"
                           ELSE "flush"
                 /\ UNCHANGED runErr
    /\ UNCHANGED <<given, parse, paths, initFinshed, stop, senders, stops, stopAt,
                   clock, created, calls, tvars, mvars, rvars, svars, gvars, pvars>>

\* tailer.Next returns lines with and without a duration and a size
RunNextOptional == RunNextOf(OptionalBlocks(parse))

NextOptional ==
    NewConsumer \/ RunStart \/ PeriodElapsed \/ RunNextOptional \/ FlushCall

SpecOptional == Init /\ [][NextOptional]_vars

\* the Consumer on a log file read while its last line is being written
NextSplit ==
    NewConsumer \/ RunStart \/ PeriodElapsed \/ RunNextSplit \/ FlushCall

SpecSplit == Init /\ [][NextSplit]_vars

\* the Consumer beside callers of Stop when Run can be held up between
\* time.After and its select: the timer fires on its own, and the select
\* takes any case that is ready
NextRace ==
    \/ NewConsumer
    \/ RunStart
    \/ TimerExpires
    \/ TimerCase
    \/ RunStop
    \/ RunNextBrief
    \/ FlushCall
    \/ Stop

SpecRace == Init /\ [][NextRace]_vars

\* the Consumer beside callers of Stop, on blocks of up to MaxBriefLines
\* lines
NextStop ==
    \/ NewConsumer
    \/ RunStart
    \/ PeriodElapsed
    \/ RunStop
    \/ RunNextBrief
    \/ FlushCall
    \/ Stop

SpecStop == Init /\ [][NextStop]_vars

\* the same when Run goes on: a select that can receive does, the period
\* elapses, and tailer.Next and the Add and Observe calls return
SpecLive ==
    /\ Init
    /\ [][NextStop]_vars
    /\ WF_vars(RunStop)
    /\ WF_vars(PeriodElapsed)
    /\ WF_vars(RunNextBrief)
    /\ WF_vars(FlushCall)

\* the Consumer and a Run that no one stops: the polling cycles alone
NextCycle ==
    \/ NewConsumer
    \/ RunStart
    \/ PeriodElapsed
    \/ RunNext
    \/ FlushCall

SpecCycles == Init /\ [][NextCycle]_vars

\* the Tailer and its file system alone
SpecTailer == Init /\ [][TailerNextStep]_vars
NextDetailed ==
    NewConsumerColon \/ RunStart \/ PeriodElapsed \/ RunNextColon \/ FlushCall
SpecDetailed == Init /\ [][NextDetailed]_vars
SpecMetrics == Init /\ [][NextMetrics]_vars
SpecRegister == Init /\ [][NextRegister]_vars
SpecPaths == Init /\ [][NextPaths]_vars
SpecRotate == Init /\ [][NextRotate]_vars


\* ------------------------------------------------------------------------
\* Properties of the Consumer (checked under Spec)
\* ------------------------------------------------------------------------

\* the records of a block, in log-line order, and those among them that
\* parsed and whose time is strictly after the start time
RecordsOf(format, b) ==
    LET lines == ScanLines(b)
    IN  [i \in 1..Len(lines) |-> Parse(format, lines[i])]
AcceptedOf(format, start, b) ==
    LET IsAccepted(p) == p.ok /\ p.Time > start
    IN  SelectSeq(RecordsOf(format, b), IsAccepted)
Records == RecordsOf(parse, block)
AcceptedRecords == AcceptedOf(parse, initFinshed, block)

\* the calls of the current cycle on one metric, whether they all returned
\* nil, and whether the last polling cycle has come to its end
CallsOf(metric) == {c \in BagToSet(calls) : c.metric = metric}
AllOK(made) == \A c \in made : c.ok
CycleOver == cpc \in {"idle", "stopped", "failed"} /\ polls > 0 /\ runErr # "next"

\* the records of acc with a status, as positions, and the statuses of acc
WithStatus(acc, s) == {i \in 1..Len(acc) : acc[i].Status = s}
StatusesOf(acc) == {acc[i].Status : i \in 1..Len(acc)}

\* the records of acc a detailed count with the labels l can come from
WithLabels(acc, l) ==
    {i \in WithStatus(acc, l.status_code) :
        LET requestFields == Fields(acc[i].Request)
        IN  /\ Len(requestFields) = 3
            /\ requestFields[1] = l.method
            /\ ParseRequestURI(requestFields[2]).Path = l.path}

\* the values of a sequence
Range(s) == {s[i] : i \in 1..Len(s)}

\* C3: in every polling cycle a record contributes to a counter or histogram
\* call only if its time is strictly after the start time NewConsumer fixed:
\* a count is at most the number of such records it can come from, and every
\* observed value is the value of such a record; records at or before the
\* start time contribute nothing.
C3_OnlyLaterRecordsContribute ==
    LET acc == AcceptedRecords
    IN  \A c \in BagToSet(calls) :
          LET with == WithStatus(acc, c.labels.status_code)
          IN  /\ c.metric = "http_response_count" =>
                    c.amount <= Cardinality(with)
              /\ c.metric = "detailed_http_response_count" =>
                    c.amount <= Cardinality(WithLabels(acc, c.labels))
              /\ c.metric = "http_response_time" =>
                    /\ Len(c.values) <= Cardinality(with)
                    /\ Range(c.values) \subseteq
                          {acc[i].RequestTime : i \in with}
              /\ c.metric = "http_response_bytes_sent" =>
                    /\ Len(c.values) <= Cardinality(with)
                    /\ Range(c.values) \subseteq {acc[i].BytesSent : i \in with}

\* a second polling cycle has ended whose block holds a record at the start
\* time and a record of the same status after it, and calls were made
C3_Witness ==
    /\ cpc = "idle"
    /\ polls = 2
    /\ calls # EmptyBag
    /\ \E i, j \in 1..Len(Records) :
          /\ Records[i].ok /\ Records[i].Time = initFinshed
          /\ Records[j].ok /\ Records[j].Time > initFinshed
          /\ Records[i].Status = Records[j].Status

\* the status counter got exactly one Add for the status s, of the amount
\* that is the number of records of acc with that status
OneAdd(acc, s) ==
    LET adds == {c \in CallsOf("http_response_count") : c.labels.status_code = s}
    IN  /\ Cardinality(adds) = 1
        /\ \A c \in adds :
              /\ c.labels = [status_code |-> s]
              /\ c.amount = Cardinality(WithStatus(acc, s))
              /\ CopiesIn(c, calls) = 1

\* C4, as stated: in each cycle the status counter receives exactly one Add
\* per status code among the accepted records, of amount the number of
\* accepted records with that status, and no Add for another status.
C4_StatusAddsAsStated ==
    CycleOver =>
        LET acc == AcceptedRecords
        IN  /\ \A s \in StatusesOf(acc) : OneAdd(acc, s)
            /\ \A c \in CallsOf("http_response_count") :
                  c.labels.status_code \in StatusesOf(acc)

\* C4, amended: an Add made on the status counter is the one Add of a status
\* among the accepted records and carries its count, whatever the requests
\* of these records; and in a cycle in which no Add on the status counter
\* returned an error, every such status got its Add.
C4_StatusAdds ==
    LET acc == AcceptedRecords
        adds == CallsOf("http_response_count")
    IN  /\ \A c \in adds :
              /\ c.labels.status_code \in StatusesOf(acc)
              /\ OneAdd(acc, c.labels.status_code)
        /\ (CycleOver /\ AllOK(adds)) => \A s \in StatusesOf(acc) : OneAdd(acc, s)

\* a cycle has ended with an Add of amount 2 for a status of two accepted
\* records, one of which has a request that is not of three fields
C4_Witness ==
    /\ cpc = "idle"
    /\ polls > 0
    /\ LET acc == AcceptedRecords
       IN  \E s \in StatusesOf(acc) :
              /\ Cardinality(WithStatus(acc, s)) = 2
              /\ OneAdd(acc, s)
              /\ \E i \in WithStatus(acc, s) : Len(Fields(acc[i].Request)) # 3


\* the path of a URI as the claim reads it: what comes before the first "?"
\* or "#"
StripPath(uri) ==
    LET q == IndexOf(uri, "?")
        h == IndexOf(uri, "#")
    IN  SubSeq(uri, 1, (IF q < h THEN q ELSE h) - 1)

\* the labels the claim gives the detailed Add of a record, and the records
\* of acc it gives one to
ClaimedLabels(p) ==
    LET requestFields == Fields(p.Request)
    IN  [status_code |-> p.Status, path |-> StripPath(requestFields[2]),
         method |-> requestFields[1]]
Eligible(acc, allowed) ==
    {i \in 1..Len(acc) :
        LET requestFields == Fields(acc[i].Request)
        IN  /\ Len(requestFields) = 3
            /\ ParseRequestURI(requestFields[2]).ok
            /\ StripPath(requestFields[2]) \in allowed}

\* C5, as stated, for a cycle whose calls all return nil: the detailed
\* counter receives exactly one Add per (status, method, path) among the
\* accepted records with a request of 3 fields, a URI that parses and a path
\* that, query and fragment stripped, is in the allow-list; the Add has the
\* labels status_code, path and method of these records and their number as
\* amount; no other detailed Add is made, and none with an empty allow-list.
C5_DetailedAddsAsStated ==
    (CycleOver /\ AllOK(BagToSet(calls))) =>
        LET acc == AcceptedRecords
            el == Eligible(acc, paths)
            adds == CallsOf("detailed_http_response_count")
        IN  /\ {c.labels : c \in adds} = {ClaimedLabels(acc[i]) : i \in el}
            /\ \A c \in adds :
                  /\ c.amount =
                        Cardinality({i \in el : ClaimedLabels(acc[i]) = c.labels})
                  /\ CopiesIn(c, calls) = 1
            /\ paths = {} => adds = {}

\* the durations and the sizes that acc holds for a status, in order: those
\* that are not negative, and those that are not the value of an absent field
DurationsOf(acc, s) ==
    LET Has(p) == p.Status = s /\ p.RequestTime >= 0
        sel == SelectSeq(acc, Has)
    IN  [i \in 1..Len(sel) |-> sel[i].RequestTime]
SizesOf(acc, s) ==
    LET Has(p) == p.Status = s /\ p.BytesSent >= 0
        sel == SelectSeq(acc, Has)
    IN  [i \in 1..Len(sel) |-> sel[i].BytesSent]
DurationsGiven(acc, s) ==
    LET Has(p) == p.Status = s /\ p.RequestTime # Absent
        sel == SelectSeq(acc, Has)
    IN  [i \in 1..Len(sel) |-> sel[i].RequestTime]
SizesGiven(acc, s) ==
    LET Has(p) == p.Status = s /\ p.BytesSent # Absent
        sel == SelectSeq(acc, Has)
    IN  [i \in 1..Len(sel) |-> sel[i].BytesSent]

\* the histogram got one Observe for the status s with the list want, or
\* none when want is empty
OneObserve(metric, s, want) ==
    LET obs == {c \in CallsOf(metric) : c.labels.status_code = s}
    IN  IF want = <<>> THEN obs = {}
        ELSE /\ Cardinality(obs) = 1
             /\ \A c \in obs :
                   /\ c.labels = [status_code |-> s]
                   /\ c.values = want
                   /\ CopiesIn(c, calls) = 1

\* C6, as stated: in each cycle and for each status code the response-time
\* histogram receives one Observe with the durations of the accepted records
\* of that status that carry one, in log-line order, and the response-size
\* histogram likewise with the byte counts; a status without such a value
\* gets no Observe.
C6_ObservesAsStated ==
    CycleOver =>
        LET acc == AcceptedRecords
        IN  /\ \A s \in StatusesOf(acc) :
                  /\ OneObserve("http_response_time", s, DurationsGiven(acc, s))
                  /\ OneObserve("http_response_bytes_sent", s, SizesGiven(acc, s))
            /\ \A c \in CallsOf("http_response_time")
                          \cup CallsOf("http_response_bytes_sent") :
                  c.labels.status_code \in StatusesOf(acc)

\* C6, amended: an Observe made on the response-time histogram is the one
\* Observe of its status and lists the durations that are not negative of
\* the accepted records of that status, in log-line order, and likewise for
\* the response-size histogram and the byte counts; and in a cycle in which
\* no call returned an error, every status with such a value got its
\* Observe, and a status without one got none.
C6_Observes ==
    LET acc == AcceptedRecords
    IN  /\ \A c \in CallsOf("http_response_time") :
              /\ c.values # <<>>
              /\ OneObserve("http_response_time", c.labels.status_code,
                            DurationsOf(acc, c.labels.status_code))
        /\ \A c \in CallsOf("http_response_bytes_sent") :
              /\ c.values # <<>>
              /\ OneObserve("http_response_bytes_sent", c.labels.status_code,
                            SizesOf(acc, c.labels.status_code))
        /\ (CycleOver /\ AllOK(BagToSet(calls))) =>
              \A s \in StatusesOf(acc) :
                 /\ OneObserve("http_response_time", s, DurationsOf(acc, s))
                 /\ OneObserve("http_response_bytes_sent", s, SizesOf(acc, s))

\* a cycle has ended without an error in which a histogram got an Observe of
\* two different values
C6_Witness ==
    /\ cpc = "idle"
    /\ polls > 0
    /\ AllOK(BagToSet(calls))
    /\ \E c \in CallsOf("http_response_time") :
          Len(c.values) = 2 /\ c.values[1] # c.values[2]


\* a line is the encoding of a request, and the request it encodes
IsEncoding(format, line) == \E r \in Requests : Encode(format, r) = line
Decode(format, line) == CHOOSE r \in Requests : Encode(format, r) = line
OtherFormat(format) == IF format = "JSON" THEN "CLF" ELSE "JSON"

\* the labels and amounts the k-th flush loop sends for the aggregate s, and
\* those the current cycle sent to a metric
CounterFlush(s, k) ==
    {[labels |-> Call(s, k, code, TRUE).labels,
      amount |-> Call(s, k, code, TRUE).amount] : code \in DOMAIN FlushMap(s, k)}
MadeFlush(metric) ==
    {[labels |-> c.labels, amount |-> c.amount] : c \in CallsOf(metric)}

\* the durations of the requests of reqs with a status and a time after start
LaterDurations(reqs, start, s) ==
    LET Has(r) == r.status = s /\ r.wall - r.zone > start
        sel == SelectSeq(reqs, Has)
    IN  [i \in 1..Len(sel) |-> sel[i].duration]

\* C7: when the block of a cycle that ended without an error encodes a
\* sequence of requests in the Consumer's format, the Adds of the cycle on
\* the status counter and on the detailed counter are those that the other
\* format's parser yields for the same requests in the other encoding; with
\* CLF the response-time histogram gets no Observe, with JSON it gets, per
\* status, the durations of the requests.
C7_FormatsAgree ==
    (/\ CycleOver
     /\ AllOK(BagToSet(calls))
     /\ \A i \in 1..Len(block) : IsEncoding(parse, block[i])) =>
        LET reqs == [i \in 1..Len(block) |-> Decode(parse, block[i])]
            other == OtherFormat(parse)
            twin == Aggregate(other, initFinshed, paths,
                              [i \in 1..Len(reqs) |-> Encode(other, reqs[i])])
        IN  /\ MadeFlush("http_response_count") = CounterFlush(twin, 1)
            /\ MadeFlush("detailed_http_response_count") = CounterFlush(twin, 2)
            /\ parse = "CLF" => CallsOf("http_response_time") = {}
            /\ parse = "JSON" =>
                  /\ twin.latencyObservations = EmptyMap
                  /\ \A r \in Range(reqs) :
                        OneObserve("http_response_time", r.status,
                                   LaterDurations(reqs, initFinshed, r.status))

\* a cycle of a Consumer of CLF lines has ended without an error whose block
\* encodes two requests, with Adds on both counters
C7_Witness ==
    /\ cpc = "idle"
    /\ polls > 0
    /\ parse = "CLF"
    /\ AllOK(BagToSet(calls))
    /\ Len(block) = 2
    /\ \A i \in 1..Len(block) : IsEncoding(parse, block[i])
    /\ CallsOf("http_response_count") # {}
    /\ CallsOf("detailed_http_response_count") # {}

\* C8: a polling cycle in which the tailer returns zero bytes, or in which
\* every line is rejected by the parser or by the time filter, makes no call
\* on any of the four metric handles.
C8_NoCallsWithoutAcceptedRecord ==
    (\A i \in 1..Len(block) :
        LET p == Parse(parse, block[i])
        IN  ~p.ok \/ p.Time <= initFinshed) => calls = EmptyBag

\* a cycle has ended whose block held a line the parser rejects and a line
\* the time filter rejects
C8_Witness ==
    /\ cpc = "idle"
    /\ polls > 0
    /\ calls = EmptyBag
    /\ \E i, j \in 1..Len(block) :
          /\ ~Parse(parse, block[i]).ok
          /\ Parse(parse, block[j]).ok
          /\ Parse(parse, block[j]).Time <= initFinshed

C10_StopDoesNotInterrupt ==
    [][/\ (cpc \in {"next", "flush"} /\ stop = 1) =>
             /\ stop' = 1
             /\ cpc' \in {"next", "flush", "idle", "failed"}
             /\ cpc' = "idle" => Unfinished(stats', calls') = {}
       /\ (cpc # "stopped" /\ cpc' = "stopped") =>
             /\ cpc = "idle"
             /\ Unfinished(stats, calls) = {}
             /\ AllOK(BagToSet(calls))
             /\ UNCHANGED <<polls, calls, block, stats>>]_vars

\* a Stop call was made during a cycle, the cycle made all its calls, two or
\* more, and Run then returned nil
C10_Witness ==
    /\ stopAt = "busy"
    /\ cpc = "stopped"
    /\ polls > 0
    /\ BagCardinality(calls) >= 2
    /\ Unfinished(stats, calls) = {}


\* Run has been called and has not returned
Running == cpc \in {"idle", "next", "flush"}

\* C11: a Stop call that is the only one made on its Consumer does not
\* block, wherever Run is: after it no sender is parked on the channel.
C11_OneStopNeverBlocks == stops <= 1 => senders = 0

\* the one Stop call was made in the middle of a polling cycle and returned:
\* its value is in the channel while the cycle goes on
C11_Witness ==
    /\ stops = 1
    /\ stopAt = "busy"
    /\ cpc = "flush"
    /\ stop = 1
    /\ senders = 0

\* C12 (under SpecLive): once Stop has been called while Run is executing,
\* Run returns, with nil unless a tailer or sink call returned an error; and
\* whenever Run has returned on the stop signal its result is nil.
C12_StopEndsRun ==
    /\ (stops >= 1 /\ Running) ~> (cpc = "stopped" \/ runErr \in {"next", "flush"})
    /\ [](cpc = "stopped" => runErr = "nil")

\* Stop was called once during a cycle that made calls, none of which
\* failed, and Run has returned nil
C12_Witness ==
    /\ stops = 1
    /\ stopAt = "busy"
    /\ polls > 0
    /\ calls # EmptyBag
    /\ AllOK(BagToSet(calls))
    /\ cpc = "stopped"
    /\ runErr = "nil"


\* a call of the current cycle returned an error
SomeCallFailed == \E c \in BagToSet(calls) : ~c.ok

\* C13 (under SpecLive): Run returns nil only after a Stop call, and returns
\* an error only when tailer.Next failed (before any call of the cycle) or a
\* flush call failed; otherwise it has not returned, and as long as no Stop
\* call is made, from its select it goes on to a new polling cycle (while
\* the clock of the model has not reached its bound).
C13_RunReturnsOnlyOnErrorOrStop ==
    /\ [](cpc = "stopped" => (stops >= 1 /\ runErr = "nil"))
    /\ [](cpc = "failed" =>
             \/ runErr = "next" /\ calls = EmptyBag
             \/ runErr = "flush" /\ SomeCallFailed)
    /\ [](runErr # "none" => cpc \in {"stopped", "failed"})
    /\ (cpc = "idle" /\ clock < MaxClock) ~> (cpc = "next" \/ stops >= 1)

\* Run is at its select after two polling cycles, with no Stop call and no
\* error
C13_Witness ==
    /\ cpc = "idle"
    /\ polls = 2
    /\ stops = 0
    /\ runErr = "none"
    /\ ~SomeCallFailed

\* C14: when tailer.Next returns an error Run returns that error with
\* nothing parsed or flushed in the cycle; when a flush call returns an
\* error Run returns an error; and once Run has returned an error there is
\* no further tailer.Next call and no further call on a metric handle.
C14_ErrorsEndRun ==
    /\ [](runErr = "next" =>
             (cpc = "failed" /\ block = <<>> /\ stats = NewStats
                 /\ calls = EmptyBag))
    /\ [](SomeCallFailed => (cpc = "failed" /\ runErr = "flush"))
    /\ [][cpc = "failed" =>
             UNCHANGED <<cpc, runErr, polls, calls, block, stats>>]_vars

\* in its second cycle tailer.Next returned an error and Run has returned
C14_Witness ==
    /\ cpc = "failed"
    /\ runErr = "next"
    /\ polls = 2

\* C15: in a cycle, after the first Add or Observe that returns an error no
\* further call is made on a metric handle, and that error ends the cycle
\* and is what Run returns.
C15_FirstErrorEndsFlush ==
    /\ [](SomeCallFailed =>
             /\ cpc = "failed" /\ runErr = "flush"
             /\ Cardinality({c \in BagToSet(calls) : ~c.ok}) = 1)
    /\ [][SomeCallFailed => calls' = calls]_vars

\* a call failed after another call of the cycle had succeeded, while keys
\* were left to flush
C15_Witness ==
    /\ SomeCallFailed
    /\ \E c \in BagToSet(calls) : c.ok
    /\ Unfinished(stats, calls) # {}


\* the lines of a block the parser returns a record for
WithoutUnparsed(format, b) ==
    LET Parses(line) == Parse(format, line).ok
    IN  SelectSeq(b, Parses)

Malformed(p) ==
    LET requestFields == Fields(p.Request)
    IN  Len(requestFields) # 3 \/ ~ParseRequestURI(requestFields[2]).ok
WithoutMalformed(format, start, b) ==
    LET Kept(line) ==
            LET p == Parse(format, line)
            IN  ~(p.ok /\ p.Time > start /\ Malformed(p))
    IN  SelectSeq(b, Kept)

\* C17: when the scanning loop of a cycle has ended (no flush call is made
\* yet), an accepted record whose request does not split into 3 tokens, or
\* whose URI token does not parse, is counted under its status with every
\* other accepted record of that status, its duration and its size (when
\* present) are among the observations of its status, in log-line order;
\* and the detailed counts of the cycle are those of the block without the
\* lines of such records.
C17_MalformedRequestStillCounted ==
    calls = EmptyBag =>
        LET acc == AcceptedRecords
            mal == {i \in 1..Len(acc) : Malformed(acc[i])}
        IN  /\ \A i \in mal :
                  LET s == acc[i].Status
                  IN  /\ s \in DOMAIN stats.statusCounts
                      /\ stats.statusCounts[s].total =
                            Cardinality(WithStatus(acc, s))
                      /\ Present(acc[i].RequestTime) =>
                            /\ s \in DOMAIN stats.latencyObservations
                            /\ stats.latencyObservations[s].seen =
                                  DurationsOf(acc, s)
                      /\ Present(acc[i].BytesSent) =>
                            /\ s \in DOMAIN stats.bytesSentObservations
                            /\ stats.bytesSentObservations[s].seen =
                                  SizesOf(acc, s)
            /\ mal # {} =>
                  stats.detailedStatusCounts =
                     Aggregate(parse, initFinshed, paths,
                               WithoutMalformed(parse, initFinshed, block)
                              ).detailedStatusCounts

\* a cycle has made all its calls for a block of two accepted records of one
\* status, the first with a request of two tokens and a duration, the second
\* with a request that is counted in detail
C17_Witness ==
    LET acc == AcceptedRecords
    IN  /\ cpc = "idle"
        /\ Len(acc) = 2
        /\ Malformed(acc[1])
        /\ Present(acc[1].RequestTime)
        /\ ~Malformed(acc[2])
        /\ acc[1].Status = acc[2].Status
        /\ stats.detailedStatusCounts # EmptyMap
        /\ calls # EmptyBag
        /\ AllOK(BagToSet(calls))


\* ------------------------------------------------------------------------
\* Further properties of the Tailer (checked under SpecTailer)
\* ------------------------------------------------------------------------

\* the tailer has been created and Next() has not been called: every Next()
\* leaves a result, a time of last content or the outcome of a check
NoNextYet ==
    /\ tpc = "ready"
    /\ lastContent = ZeroTime
    /\ lastCheck = "none"
    /\ tres = <<>>

\* C18: NewTailer leaves the cursor of its handle at byte 0 of the file at
\* the path, and the first Next() of the tailer (no read failing) returns
\* the whole content the file holds when it is read: what it held when it
\* was opened, followed by what was appended since.
C18_FirstNextReturnsWholeFile ==
    [][/\ (tpc = "new" /\ tpc' = "ready")
            => tfile' = [ino |-> fsPath, off |-> 0]
       /\ (IsNextStep /\ NoNextYet)
            => /\ tpc' = "ready"
               /\ tres' = files[tfile.ino]
               /\ tres' = atOpen \o appended]_tvars

\* a Next() has returned the first bytes this tailer returns: from byte 0,
\* the whole content of a file of at least two bytes
C18_Witness ==
    /\ tpc = "ready"
    /\ returned = tres
    /\ Len(tres) >= 2
    /\ tres = files[tfile.ino]
    /\ tfile.off = Len(tres)
    /\ lastContent = tnow


\* C19, as stated: after NewTailer and after every Next() returns, at most
\* one file handle opened by the tailer is open: every handle opened for a
\* rotation check has been closed or has replaced the previous handle,
\* which was closed.
C19_AtMostOneHandle == handles <= 1


\* the handle the tailer holds is replaced in this step
HandleReplaced == tpc = "ready" /\ (tfile'.ino # tfile.ino \/ tinfo' # tinfo)

\* what C20 says of the file at the path when the handle is replaced, and
\* of a Next() that returns bytes
C20_Identity ==
    /\ HandleReplaced =>
          /\ ReadAll(tfile) = <<>>
          /\ tres' = <<>>
          /\ fsPath # NoFile
          /\ fsPath # tinfo
          /\ tfile' = [ino |-> fsPath, off |-> 0]
          /\ tinfo' = fsPath
    /\ (tpc = "ready" /\ tres' # <<>>) =>
          (tfile'.ino = tfile.ino /\ tinfo' = tinfo)

\* C20, as stated: the held handle is replaced only inside a Next() that
\* read zero bytes, when more than idleDuration has elapsed since the last
\* Next() that returned bytes, and only when the path then resolves to a
\* file other than the held one; a Next() that returns bytes never changes
\* the handle.
C20_ReplacedOnlyWhenIdleAsStated ==
    [][/\ HandleReplaced =>
            (lastContent # ZeroTime /\ tnow - lastContent > idleDuration)
       /\ C20_Identity]_tvars

\* C20, amended: the held handle is replaced only inside a Next() that read
\* zero bytes, when more than idleDuration has elapsed since the last Next()
\* that returned bytes or no Next() of this tailer has returned bytes yet,
\* and only when the path then resolves to a file other than the held one;
\* a Next() that returns bytes never changes the handle.
C20_ReplacedOnlyWhenIdle ==
    [][/\ HandleReplaced =>
            (lastContent = ZeroTime \/ tnow - lastContent > idleDuration)
       /\ C20_Identity]_tvars

\* a Next() has just replaced the handle of a tailer that had returned
\* bytes, more than a positive idleDuration earlier
C20_Witness ==
    /\ tpc = "ready"
    /\ lastCheck = "switched"
    /\ tfile = [ino |-> fsPath, off |-> 0]
    /\ lastContent # ZeroTime
    /\ idleDuration > 0
    /\ tnow - lastContent > idleDuration


\* the outcomes of a rotation check that found the same file, or could not
\* open or stat the path
Unswitched == {"same", "openfailed", "statfailed"}

\* C21: a Next() whose rotation check finds the same file at the path, or
\* cannot open or stat the path, leaves the held handle, the recorded
\* identity and the read cursor as they were, and returns the empty result
\* and no error.
C21_CheckWithoutSwitchChangesNothing ==
    [][(tpc = "ready" /\ lastCheck' \in Unswitched)
         => /\ tfile' = tfile
            /\ tinfo' = tinfo
            /\ tres' = <<>>
            /\ tpc' = "ready"]_tvars

\* a Next() of a tailer that has read bytes has just found the same file at
\* the path
C21_Witness ==
    /\ tpc = "ready"
    /\ lastCheck = "same"
    /\ lastContent # ZeroTime
    /\ tfile.off > 0
    /\ tfile.off = Len(files[tfile.ino])
    /\ tres = <<>>


\* C22: NewTailer on a path that cannot be opened returns an error and no
\* Tailer: no handle is held or left open, and no Next() follows.
C22_NewTailerFailsOnMissingPath ==
    [][/\ (tpc = "new" /\ fsPath = NoFile /\ tpc' # "new")
            => /\ tpc' = "openfailed"
               /\ tfile' = NoHandle
               /\ tinfo' = NoFile
               /\ handles' = 0
       /\ tpc = "openfailed"
            => UNCHANGED <<tpc, tfile, tinfo, handles, tres, returned>>]_tvars

\* NewTailer has failed on a path that was renamed away, and the path has
\* since been created again
C22_Witness ==
    /\ tpc = "openfailed"
    /\ handles = 0
    /\ tfile = NoHandle
    /\ returned = <<>>
    /\ fsPath = 2


\* ------------------------------------------------------------------------
\* Properties of NewConsumer
\* ------------------------------------------------------------------------

\* the metrics NewConsumer made a creation call for, in call order
CreationCalls ==
    LET IsAdd(c) == c.op = "Add"
        adds == SelectSeq(created, IsAdd)
    IN  [i \in 1..Len(adds) |-> adds[i].name]

\* C23: NewConsumer makes its creation calls in the order http_response_count,
\* detailed_http_response_count, http_response_time,
\* http_response_bytes_sent, each followed by the fetch of its handle; when a
\* creation or a fetch returns an error it is the last call made, no
\* Consumer is returned and no later metric is created; a Consumer is
\* returned only when all four were created and fetched.
C23_CreationInOrderUntilError ==
    /\ CreationCalls = SubSeq(Metrics, 1, Len(CreationCalls))
    /\ \A i \in 1..Len(created) :
          /\ created[i].op = (IF i % 2 = 1 THEN "Add" ELSE "Get")
          /\ created[i].name = Metrics[(i + 1) \div 2]
          /\ ~created[i].ok => (i = Len(created) /\ cpc = "noconsumer")
    /\ cpc \notin {"new", "noconsumer"} =>
          (CreationCalls = Metrics /\ Len(created) = 2 * Len(Metrics))
    /\ cpc = "noconsumer" => (parse = "none" /\ polls = 0 /\ calls = EmptyBag)

\* NewConsumer has failed on the fetch of the second metric's handle: two
\* metrics were created, the last two were not
C23_Witness ==
    /\ cpc = "noconsumer"
    /\ Len(created) = 4
    /\ ~created[4].ok
    /\ CreationCalls = SubSeq(Metrics, 1, 2)


\* C24: NewConsumer called with a format other than "JSON" and "CLF"
\* returns an error and no Consumer, and makes no call on the manager.
C24_UnsupportedFormatFails ==
    (given # "none" /\ given \notin {"JSON", "CLF"}) =>
        /\ cpc = "noconsumer"
        /\ parse = "none"
        /\ created = <<>>
        /\ polls = 0

\* NewConsumer has been called with the format "XML"
C24_Witness ==
    /\ given = "XML"
    /\ cpc = "noconsumer"
    /\ created = <<>>


\* C25: every cycle starts from empty aggregates, and what it flushes comes
\* from its own block only.  When tailer.Next is about to be called, in the
\* first cycle and in every later one, no count and no observation is held;
\* and the amount of every Add and the list of every Observe of a cycle is
\* the number, or the values in log-line order, of the accepted records of
\* this cycle's block that have the call's labels.
C25_CycleStartsEmpty ==
    /\ cpc = "next" =>
          /\ calls = EmptyBag
          /\ \A k \in 1..Len(Metrics) : DOMAIN FlushMap(stats, k) = {}
    /\ calls # EmptyBag =>
          LET acc == AcceptedRecords
          IN  \A c \in BagToSet(calls) :
                 /\ c.metric = Metrics[1] =>
                       c.amount = Cardinality(WithStatus(acc, c.labels.status_code))
                 /\ c.metric = Metrics[2] =>
                       c.amount = Cardinality(WithLabels(acc, c.labels))
                 /\ c.metric = Metrics[3] =>
                       c.values = DurationsOf(acc, c.labels.status_code)
                 /\ c.metric = Metrics[4] =>
                       c.values = SizesOf(acc, c.labels.status_code)

\* the second cycle of a Run has made calls on all four metrics
C25_Witness ==
    /\ polls = 2
    /\ cpc = "idle"
    /\ \A k \in 1..Len(Metrics) : CallsOf(Metrics[k]) # {}
    /\ AllOK(BagToSet(calls))


\* the calls of history on operation op with the given labels that got past
\* GetMetricWith
CallsWith(op, given_labels) ==
    {i \in 1..Len(history) :
        /\ history[i].op = op
        /\ history[i].labels = given_labels
        /\ history[i].out # "err"}

RECURSIVE PassedUpTo(_, _, _)
\* the values passed by the calls on op with the given labels that returned
\* nil, among the first n calls, in call order
PassedUpTo(op, given_labels, n) ==
    IF n = 0 THEN <<>>
    ELSE PassedUpTo(op, given_labels, n - 1) \o
            (IF /\ history[n].op = op
                /\ history[n].labels = given_labels
                /\ history[n].out = "nil"
             THEN history[n].values ELSE <<>>)

Passed(op, given_labels) == PassedUpTo(op, given_labels, Len(history))

RECURSIVE SumOfValues(_)
SumOfValues(values) ==
    IF values = <<>> THEN 0 ELSE values[1] + SumOfValues(Tail(values))

\* the full label-set is the given labels and the manager's common labels
CarriesCommon(key, given_labels) ==
    /\ DOMAIN key = DOMAIN commonLabels \cup DOMAIN given_labels
    /\ \A k \in DOMAIN commonLabels : key[k] = commonLabels[k]
    /\ \A k \in DOMAIN given_labels : key[k] = given_labels[k]

\* C26: for a counter created through the Manager, after any sequence of Add
\* calls the exported value of each label-set is the sum of the amounts added
\* for it, a label-set no Add call was made for has no series, and every
\* series carries the Manager's common labels besides the labels given.
C26_CounterExportsSums ==
    CounterName \in DOMAIN counters =>
        LET series == counters[CounterName].series
        IN  /\ \A key \in DOMAIN series :
                  \E given_labels \in LabelSets :
                     /\ CarriesCommon(key, given_labels)
                     /\ CallsWith("Add", given_labels) # {}
                     /\ series[key] = SumOfValues(Passed("Add", given_labels))
            /\ \A given_labels \in LabelSets :
                  CallsWith("Add", given_labels) # {} =>
                     \E key \in DOMAIN series : CarriesCommon(key, given_labels)

\* two amounts were added for one label-set and one for another, under a
\* manager with a common label
C26_Witness ==
    /\ commonLabels = [foo |-> "bar"]
    /\ CounterName \in DOMAIN counters
    /\ Passed("Add", [label_one |-> "one"]) = <<1, 2>>
    /\ Passed("Add", [label_one |-> "three"]) = <<2>>
    /\ Cardinality(DOMAIN counters[CounterName].series) = 2

\* C27: Observe(labels, values) records every element of values in the
\* series of the label-set: after any sequence of Observe calls each series
\* holds exactly the values passed for its label-set, in order, so its count
\* is their total number, whatever was observed for other label-sets.
C27_HistogramRecordsEveryValue ==
    HistogramName \in DOMAIN histograms =>
        LET series == histograms[HistogramName].series
        IN  /\ \A key \in DOMAIN series :
                  \E given_labels \in LabelSets :
                     /\ CarriesCommon(key, given_labels)
                     /\ CallsWith("Observe", given_labels) # {}
                     /\ series[key] = Passed("Observe", given_labels)
                     /\ Len(series[key]) = Len(Passed("Observe", given_labels))
            /\ \A given_labels \in LabelSets :
                  CallsWith("Observe", given_labels) # {} =>
                     \E key \in DOMAIN series : CarriesCommon(key, given_labels)

\* two Observe calls on one label-set, one of them with two values, and one
\* call on another label-set
C27_Witness ==
    /\ HistogramName \in DOMAIN histograms
    /\ Cardinality(CallsWith("Observe", [label_one |-> "one"])) = 2
    /\ Passed("Observe", [label_one |-> "one"]) = <<1, 1, 2>>
    /\ Passed("Observe", [label_one |-> "three"]) = <<1>>
    /\ Cardinality(DOMAIN histograms[HistogramName].series) = 2


RECURSIVE ContentsFrom(_, _)
\* the contents of files i..j, in rotation order
ContentsFrom(i, j) ==
    IF i > j THEN <<>> ELSE files[i] \o ContentsFrom(i + 1, j)

\* what Next() has returned so far is, in rotation order, the content of
\* every file from the one NewTailer opened up to the cursor in the held one:
\* no byte before the cursor is missing and none was returned twice
ReturnedInOrder ==
    tpc \in {"ready", "readfailed"} =>
        returned = ContentsFrom(first, tinfo - 1)
                      \o SubSeq(files[tinfo], 1, tfile.off)

\* C28, as stated: if no byte is written to a replaced file after the Next()
\* that last read it, and the path is replaced at most once between two
\* consecutive rotation checks, the concatenation of all Next() results is
\* the concatenation of the files' contents in rotation order.
C28_EveryByteOnceAsStated ==
    (~late /\ sinceCheck < 3) => ReturnedInOrder

\* C28, amended: if no byte is written to a replaced file after the Next()
\* that last read it, and the path is never replaced again before a rotation
\* check has switched the tailer to the file of the previous replacement,
\* the concatenation of all Next() results is the concatenation of the
\* files' contents in rotation order.
C28_EveryByteOnce ==
    (~late /\ ~skipped) => ReturnedInOrder

\* the tailer has followed two rotations and has returned the content of
\* the two files it left behind, none of them empty
C28_Witness ==
    /\ ~late /\ ~skipped
    /\ first = 1
    /\ tinfo = 3
    /\ files[1] # <<>> /\ files[2] # <<>>
    /\ returned = files[1] \o files[2]


\* a step that is one call of Next(): no other action of a ready tailer
\* leaves the files, the path, the writer and the clock alone
IsNextCall ==
    /\ tpc = "ready"
    /\ UNCHANGED <<files, fsPath, writer, tnow>>
    /\ tvars' # tvars

\* C29: after a handle switch the cursor is at byte 0 of the new file.  The
\* Next() that switches returns no byte and leaves the new handle at byte 0
\* of the file now at the path; the first Next() after it, unless its read
\* fails, returns everything in the new file: the bytes it held when the
\* rotation check ran, then those appended since.
C29_SwitchStartsAtByteZero ==
    [][IsNextCall =>
          /\ lastCheck' = "switched" =>
                /\ tres' = <<>>
                /\ tfile' = [ino |-> fsPath, off |-> 0]
                /\ tfile'.ino # tfile.ino
                /\ atOpen' = files[fsPath]
          /\ (lastCheck = "switched" /\ tpc' = "ready") =>
                /\ tres' = files[tfile.ino]
                /\ tres' = atOpen \o appended]_tvars

\* the tailer has just switched to a file that already held a byte when the
\* rotation check ran, and another byte has been appended to it since
C29_Witness ==
    /\ tpc = "ready"
    /\ lastCheck = "switched"
    /\ tres = <<>>
    /\ tfile.off = 0
    /\ atOpen # <<>>
    /\ appended # <<>>


\* the status, method and path consumeLine takes from a record, and the
\* records of acc that get a detailed count
RecordLabels(p) ==
    LET requestFields == Fields(p.Request)
    IN  [status_code |-> p.Status,
         path |-> ParseRequestURI(requestFields[2]).Path,
         method |-> requestFields[1]]
Detailed(acc, allowed) ==
    {i \in 1..Len(acc) :
        LET requestFields == Fields(acc[i].Request)
        IN  /\ Len(requestFields) = 3
            /\ ParseRequestURI(requestFields[2]).ok
            /\ ParseRequestURI(requestFields[2]).Path \in allowed}

\* C30, as stated, for a cycle whose calls all return nil: two accepted
\* records are added into the same detailed-counter entry only if they have
\* the same status, method and path.  Every record with a detailed count is
\* flushed in an Add labelled with its own status, method and path, and the
\* amount of every detailed Add is the number of records with its labels.
C30_SeparateEntries ==
    (CycleOver /\ AllOK(BagToSet(calls))) =>
        LET acc == AcceptedRecords
            el == Detailed(acc, paths)
            adds == CallsOf(Metrics[2])
        IN  /\ \A i \in el : \E c \in adds : c.labels = RecordLabels(acc[i])
            /\ \A c \in adds :
                  c.amount =
                     Cardinality({i \in el : RecordLabels(acc[i]) = c.labels})


\* the place of a metric in the order of the flush loops
LoopOf(metric) == CHOOSE k \in 1..Len(Metrics) : Metrics[k] = metric

\* C31: within a cycle all status-counter Add calls come before all
\* detailed-counter Add calls, these before all response-time Observe calls,
\* and these before all response-size Observe calls; a call that fails leaves
\* the calls already made in the cycle as they are.  Every step that changes
\* the calls of the cycle either starts a new cycle or adds one call, made
\* when every earlier loop has reached all of its keys and no later loop has
\* made a call; and a failing call ends Run with the earlier calls in place.
C31_FlushOrder ==
    [][calls' # calls =>
          \/ calls' = EmptyBag /\ cpc' = "next"
          \/ \E c \in BagToSet(calls') :
                /\ calls' = calls (+) SetToBag({c})
                /\ \A j \in 1..(LoopOf(c.metric) - 1) :
                      Remaining(stats, calls, j) = {}
                /\ \A d \in BagToSet(calls) : LoopOf(d.metric) <= LoopOf(c.metric)
                /\ ~c.ok => (cpc' = "failed" /\ calls \sqsubseteq calls')]_vars

\* a cycle has made calls on all four metrics and its last call, an Observe
\* of response sizes, has failed: the earlier calls are still there
C31_Witness ==
    /\ cpc = "failed"
    /\ runErr = "flush"
    /\ \A k \in 1..3 : CallsOf(Metrics[k]) # {} /\ AllOK(CallsOf(Metrics[k]))
    /\ \E c \in CallsOf(Metrics[4]) : ~c.ok


\* the control state of Run: Idle at the select, Polling from the expiry of
\* the period to the end of consumeBytes, Stopped once Run has returned
Phase(pc) ==
    IF pc = "idle" THEN "Idle"
    ELSE IF pc \in {"next", "flush"} THEN "Polling"
    ELSE IF pc \in {"stopped", "failed"} THEN "Stopped"
    ELSE "NotRunning"

\* C32: Run's control state moves only Idle to Polling (the period elapsed),
\* Polling to Idle (the cycle succeeded), Idle to Stopped (a stop value was
\* received, Run returns nil) and Polling to Stopped (an error, which Run
\* returns); Run starts Idle, so that every tailer.Next, the first included,
\* follows a wait for the period; and once Stopped, no tailer or sink call
\* is made.
C32_RunStateMachine ==
    [][/\ Phase(cpc') # Phase(cpc) =>
             \/ /\ Phase(cpc) = "NotRunning"
                /\ cpc = "created" /\ cpc' = "idle"
             \/ /\ Phase(cpc) = "Idle" /\ Phase(cpc') = "Polling"
                /\ clock' = clock + 1
             \/ /\ Phase(cpc) = "Polling" /\ Phase(cpc') = "Idle"
                /\ runErr' = "none"
                /\ AllOK(BagToSet(calls'))
             \/ /\ Phase(cpc) = "Idle" /\ Phase(cpc') = "Stopped"
                /\ stop = 1
                /\ runErr' = "nil"
             \/ /\ Phase(cpc) = "Polling" /\ Phase(cpc') = "Stopped"
                /\ runErr' \in {"next", "flush"}
       /\ polls' # polls => (cpc = "next" /\ polls' = polls + 1)
       /\ (cpc' = "next" /\ cpc # "next") => (cpc = "idle" /\ clock' = clock + 1)
       /\ Phase(cpc) = "Stopped" => UNCHANGED <<cpc, polls, calls, runErr>>]_vars

\* Run went through two polling cycles, the second ended by a failing flush
\* call, and a Stop call made afterwards found Run returned
C32_Witness ==
    /\ cpc = "failed"
    /\ runErr = "flush"
    /\ polls = 2
    /\ stops = 1
    /\ stop = 1


\* C33: once a stop value is in the channel, a wait of Run ends on the timer
\* only if the timer had fired before the select chose, and a wait whose
\* timer has not fired ends with the return of nil; each wait that ends on
\* the timer after a Stop call is one more polling cycle.
C33_StopLosesOnlyToExpiredTimer ==
    [][/\ (AtSelect /\ stop = 1) =>
             /\ cpc' = "next" => expired = 1
             /\ (cpc' # cpc /\ expired = 0) => (cpc' = "stopped" /\ runErr' = "nil")
       /\ after' # after =>
             /\ after' = after + 1
             /\ AtSelect /\ stop = 1 /\ expired = 1
             /\ cpc' = "next"]_vars

\* C33 as stated: after the first Stop call at most one more wait ends on
\* the timer
C33_AtMostOneMoreCycle == after <= 1

\* a stop value and a fired timer were both ready, the timer was taken and
\* the cycle made its tailer.Next call, and at the next wait Run returned nil
C33_Witness ==
    /\ after = 1
    /\ stops = 1
    /\ polls >= 1
    /\ cpc = "stopped"
    /\ runErr = "nil"


\* C34: while a tailer has returned no byte its lastContent is the zero
\* time, which lies further back than any threshold at any reading of the
\* clock, so each Next() of such a tailer that reads zero bytes runs the
\* rotation check; and the Next() whose check switches the handle leaves
\* lastContent as it was.
C34_FreshTailerChecksAtOnce ==
    /\ []((tpc = "ready" /\ returned = <<>>) =>
             /\ lastContent = ZeroTime
             /\ \A now \in 0..tnow : IdleExceeded(now, lastContent, idleDuration))
    /\ [][IsNextCall =>
             /\ (returned = <<>> /\ tpc' = "ready" /\ tres' = <<>>) =>
                   lastCheck' # "none"
             /\ lastCheck' = "switched" => lastContent' = lastContent]_tvars

\* a tailer opened with a threshold of one tick has switched handles before
\* the clock has moved and before it has returned any byte
C34_Witness ==
    /\ tpc = "ready"
    /\ idleDuration = 1
    /\ tnow = 0
    /\ returned = <<>>
    /\ lastCheck = "switched"
    /\ lastContent = ZeroTime


\* C35: each polling cycle counts the lines of its own block alone, a part
\* of a line at either end being one of them.  The block begins with the
\* bytes left of the line cut before and ends with the first bytes of the
\* line cut now; every Add carries the number, and every Observe the values,
\* of the lines and parts of that block that parse by themselves and are
\* accepted; and a block of which nothing parses leads to no call, even when
\* the line its parts come from would parse.
C35_FragmentsParsedAlone ==
    LET acc == AcceptedRecords
    IN  /\ (tailOf # NoCut /\ block # <<>>) => block[1] = TailOf(tailOf)
        /\ (cutLine # NoCut /\ block # <<>>) =>
              block[Len(block)] = HeadOf(cutLine)
        /\ \A c \in BagToSet(calls) :
              LET s == c.labels.status_code
              IN  /\ c.metric = "http_response_count" =>
                        c.amount = Cardinality(WithStatus(acc, s))
                  /\ c.metric = "http_response_time" =>
                        c.values = DurationsGiven(acc, s)
                  /\ c.metric = "http_response_bytes_sent" =>
                        c.values = SizesGiven(acc, s)
        /\ (\A i \in 1..Len(block) : ~Parse(parse, block[i]).ok) =>
              (stats = NewStats /\ calls = EmptyBag)

\* a line that parses and is after the start time was cut so that neither
\* part parses; the second cycle, whose block is the second part alone, has
\* ended with no call
C35_Witness ==
    /\ polls = 2
    /\ cpc = "idle"
    /\ tailOf # NoCut
    /\ Parse(parse, tailOf.line).ok
    /\ After(Parse(parse, tailOf.line).Time, initFinshed)
    /\ ~Parse(parse, HeadOf(tailOf)).ok
    /\ ~Parse(parse, TailOf(tailOf)).ok
    /\ block = <<TailOf(tailOf)>>
    /\ calls = EmptyBag


\* what a line gives for a member of the JSON object, and for the duration
\* and the size whatever the format
GivenIn(line, key) ==
    IF \E i \in 1..Len(line.f) : line.f[i].key = key
    THEN Given(Member(line, key, AbsentNumber(key)).n)
    ELSE NotGiven
DurationIn(line) ==
    IF line.fmt = "json" THEN GivenIn(line, "request_time") ELSE NotGiven
SizeIn(line) ==
    IF line.fmt = "json" THEN GivenIn(line, "bytes_sent")
    ELSE Given(line.f[Len(line.f)].n)

\* the values to observe among vs: those given and not negative, in order
ToObserve(vs) ==
    LET Counts(v) == v.has /\ v.n >= 0
        sel == SelectSeq(vs, Counts)
    IN  [i \in 1..Len(sel) |-> sel[i].n]

\* C36: in a cycle whose records are all accepted, an Observe on the
\* response-time histogram carries exactly the durations that the lines give
\* and that are not negative, in order, a given 0 among them, and nothing
\* for a line without a duration or with a negative one; when no line gives
\* such a duration no Observe is made; and likewise for the sizes.
C36_AbsentZeroNegative ==
    LET durations == ToObserve([i \in 1..Len(block) |-> DurationIn(block[i])])
        sizes == ToObserve([i \in 1..Len(block) |-> SizeIn(block[i])])
    IN  /\ \A c \in CallsOf("http_response_time") : c.values = durations
        /\ \A c \in CallsOf("http_response_bytes_sent") : c.values = sizes
        /\ (CycleOver /\ AllOK(BagToSet(calls))) =>
              /\ OneObserve("http_response_time", <<"200">>, durations)
              /\ OneObserve("http_response_bytes_sent", <<"200">>, sizes)

\* a cycle has ended on two JSON lines, the first without a duration and with
\* a negative size, the second with a duration of 0 and a size of 0: each
\* histogram got the one value 0
C36_Witness ==
    /\ cpc = "idle"
    /\ polls > 0
    /\ parse = "JSON"
    /\ Len(block) = 2
    /\ DurationIn(block[1]) = NotGiven
    /\ SizeIn(block[1]) = Given(-2)
    /\ DurationIn(block[2]) = Given(0)
    /\ SizeIn(block[2]) = Given(0)
    /\ \E c \in CallsOf("http_response_time") : c.values = <<0>> /\ c.ok
    /\ \E c \in CallsOf("http_response_bytes_sent") : c.values = <<0>> /\ c.ok


\* the calls of added on op under the name that returned nil
AddedOK(op, name) ==
    {i \in 1..Len(added) :
        added[i] = [op |-> op, name |-> name, err |-> FALSE]}

\* C37: AddCounter and AddHistogram return an error exactly for a name that
\* is registered already, and such a call leaves every stored handle as it
\* was, while a call that returns nil stores a new handle under the name; so
\* a name has at most one call that returned nil, GetCounter returns the
\* handle under a name that an AddCounter call returned nil for and an error
\* under any other name, and GetHistogram likewise.
C37_DuplicateNameIsAnError ==
    /\ [](\A name \in Names :
             /\ GetCounter(name).err <=> AddedOK("AddCounter", name) = {}
             /\ GetHistogram(name).err <=> AddedOK("AddHistogram", name) = {}
             /\ Cardinality(AddedOK("AddCounter", name)
                               \cup AddedOK("AddHistogram", name)) <= 1)
    /\ [][Len(added') > Len(added) =>
             LET a == added'[Len(added')]
             IN  /\ a.err <=> a.name \in registered
                 /\ a.err =>
                       /\ UNCHANGED <<counters, histograms, registered>>
                       /\ Lookup(counters', a.name) = GetCounter(a.name)
                       /\ Lookup(histograms', a.name) = GetHistogram(a.name)
                 /\ (~a.err /\ a.op = "AddCounter") =>
                       /\ GetCounter(a.name).err
                       /\ Lookup(counters', a.name) =
                             [err |-> FALSE,
                              vec |-> Curried(commonLabels, LabelNames)]
                 /\ (~a.err /\ a.op = "AddHistogram") =>
                       /\ GetHistogram(a.name).err
                       /\ Lookup(histograms', a.name) =
                             [err |-> FALSE,
                              vec |-> Curried(commonLabels, LabelNames)]]_vars

\* a counter was added, amounts were added to it, and a second AddCounter
\* and an AddHistogram under its name both returned an error: the counter
\* still has its series, and no histogram is stored under the name
C37_Witness ==
    /\ Len(added) = 3
    /\ added[1] = [op |-> "AddCounter", name |-> CounterName, err |-> FALSE]
    /\ added[2] = [op |-> "AddCounter", name |-> CounterName, err |-> TRUE]
    /\ added[3] = [op |-> "AddHistogram", name |-> CounterName, err |-> TRUE]
    /\ ~GetCounter(CounterName).err
    /\ DOMAIN GetCounter(CounterName).vec.series # {}
    /\ GetHistogram(CounterName).err
    /\ GetCounter(HistogramName).err


\* an element as the flag's description asks for it: not empty, and with no
\* white space anywhere in it
WellFormed(elem) == Len(elem) > 0 /\ \A i \in 1..Len(elem) : elem[i] # SP

\* C38: parseMonitoredPaths returns the elements of the flag value, in
\* order, with no error when every element is non-empty and has no white
\* space in it; it returns an error and no paths when an element is empty
\* or has white space in it; and it returns an empty list with no error for
\* an empty flag value.
C38_OnlyWellFormedElements ==
    result.called =>
        IF monitoredPaths = <<>> THEN result = Returns(<<>>, FALSE)
        ELSE LET elems == Split(monitoredPaths, ",")
             IN  IF \A i \in 1..Len(elems) : WellFormed(elems[i])
                 THEN result = Returns(elems, FALSE)
                 ELSE result = Returns(<<>>, TRUE)

=============================================================================
